---- MODULE Spec2Model ----
(***************************************************************************)
(* Model of project-indexer-mcp for one project P:                         *)
(*   - the resumable indexing pipelines, FileIndexManager (Index 2) and    *)
(*     FunctionIndexManager (Index 3), on the unified CheckpointManager    *)
(*     tables and the ChromaDB collections;                                *)
(*   - the iterative project analysis (Index 1), IterativeProjectAnalyzer, *)
(*     on the project_analysis and analysis_iterations tables;             *)
(*   - the RateLimiter shared by every provider call.                      *)
(*                                                                         *)
(* A file's content is abstracted to a version number; the scanner's       *)
(* SHA-256 of the content is that number.  Time is counted in ticks,       *)
(* MinuteTicks of them to the minute.                                      *)
(***************************************************************************)
EXTENDS Integers, FiniteSets, Sequences, TLC

\* ------------------------------------------------------------------ bounds
Files == {"a", "b"}
MaxVersion == 1
ErrMsgs == {"", "boom"}
MinuteTicks == 2
MaxWasted == 1
Callers == {"c1", "c2"}
NumPipelines == 6
max_tokens == 4
overlap_tokens == 1
MaxLines == 4
MaxHits == 3
MaxResults == 2
MaxDepth == 3
MaxDefs == 2
MaxImports == 2
ConfPairs == {<<50, 50>>, <<50, 100>>, <<70, 70>>, <<100, 100>>, <<101, 50>>}

\* --------------------------------------------------------------- constants
STOP_OK == 70
STOP_AVG == 80
MAX_ITERATIONS == 10
MIN_CONFIDENCE_THRESHOLD == 90
RETRIES == 3
max_concurrent_files == 5
None == "<None>"
CTX == "__project_context__"

VARIABLES
    disk,          \* [Files -> 0..MaxVersion]: content version (= hash) of each file
    pa,            \* project_analysis row of P
    fiRows,        \* file_index_checkpoints rows of P
    fuiRows,       \* function_index_checkpoints rows of P
    filesColl,     \* documents of collection project_files_{hash}
    fnColl,        \* documents of collection project_functions_{hash}
    op,            \* the manager call in progress, "idle" when none
    pc,            \* position inside the call in progress
    todo,          \* files_to_process not yet processed
    pending,       \* indexed_docs / all_docs collected for the final upsert
    stats,         \* the stats counters of the call in progress
    result,        \* status returned by the last call ("none" while running)
    error,         \* which failure the last call reported
    call,          \* facts recorded at the entry of the current / last call
    changed,       \* files modified since the last call was entered
    skipAtStart,   \* files with a completed row for their current hash at entry
    analysed,      \* files sent through analysis / embedding in this call
    raised,        \* files whose processing raised in this call
    upserted,      \* relative_path of every document upserted in this call
    rowsWritten,   \* files whose checkpoint row was put in this call
    paRow,         \* project_analysis row of P in full, as analyze reads and writes it
    snaps,         \* analysis_iterations rows of P: iteration -> its next_path
    cur,           \* analyze: current_state
    next_files,    \* analyze: next_files
    attempts,      \* _call_llm_with_validation: attempts made in this iteration
    paRun,         \* facts recorded about the current / last run of analyze
    wasted,        \* iterations left unrecorded since the analysis was last cleared
    bucket,        \* RateLimiter: request_tokens, token_tokens, ticks since the refill
    lockQ,         \* RateLimiter.lock: its holder, then the callers waiting for it
    cpc,           \* position of each caller of the rate limiter
    demand,        \* the (tokens, request_count) each caller asked for
    sleepLeft,     \* ticks left of the asyncio.sleep of the lock holder
    attempt,       \* execute_with_retry: the attempt each caller is at
    permit,        \* whether each caller acquired since its last provider call
    window,        \* what was granted during the observed minute
    retry,         \* execute_with_retry: one call of it, with what it did so far
    concOp,        \* the indexing call whose file pipelines are observed
    pipe,          \* position of the pipeline of each file of that call
    holds,         \* the pipelines that hold a slot of the call's semaphore
    full,          \* full_project_index: its position, stages started, results
    fproc,         \* FunctionIndexManager._process_file of one file, step by step
    ck,            \* chunk_code_file: its input, the locals of its loop, its result
    srch,          \* IndexManager.search_files: the hits, its loop, its result
    cstk,          \* build_call_stack: the call graph, the frames of the recursion, the tree
    rcall          \* resolve_call: the call, the maps of the resolver, what it returned

store == <<fiRows, fuiRows, filesColl, fnColl>>
local == <<op, pc, todo, pending, stats, result, error>>
trace == <<skipAtStart, analysed, raised, upserted, rowsWritten>>
history == <<call, changed, trace>>
paVars == <<paRow, snaps, cur, next_files, attempts, paRun, wasted>>
rlVars == <<bucket, lockQ, cpc, demand, sleepLeft, attempt, permit, window>>
svcVars == <<retry, concOp, pipe, holds, full, fproc, ck, srch, cstk, rcall>>
ext == <<paVars, rlVars, svcVars>>
vars == <<disk, pa, store, local, history, ext>>

\* ------------------------------------------------------------ data shapes
NoPA == [present |-> FALSE, completed |-> FALSE, min_confidence |-> 0]

\* the analysis records the environment saves: one below the threshold and
\* not completed, one at the threshold, one completed below the threshold
PAStates == { [present |-> TRUE, completed |-> FALSE, min_confidence |-> STOP_OK - 1],
              [present |-> TRUE, completed |-> FALSE, min_confidence |-> STOP_OK],
              [present |-> TRUE, completed |-> TRUE, min_confidence |-> STOP_OK - 1] }
NoRow == [status |-> "absent", hash |-> 0, count |-> 0, error |-> None]
NoRows == [f \in Files |-> NoRow]
ZeroStats == [ok_files |-> 0, failed_files |-> 0]
NoCall == [name |-> "none", force |-> FALSE, paths |-> {}, paState |-> "absent",
           fiDone |-> FALSE, prev |-> "other", modified |-> {}]

\* Python truthiness of an Optional[str]
Truthy(s) == s # None /\ s # ""

\* chunk_code_file: the number of chunks is a function of the content
ChunkCount(v) == IF v % 2 = 0 THEN 2 ELSE 1

\* _extract_functions: the functions of a file are a function of its content
\* (the first content of a file has no function, its edited content has two)
FuncsOf(v) == IF v % 2 = 0 THEN {} ELSE {"f1", "f2"}

_generate_document_id(rel, chunk_index) == <<"files", rel, chunk_index>>

_generate_function_id(rel, name) == <<"func", rel, name>>

FileDocs(f, v) ==
    { [id |-> _generate_document_id(f, i), relative_path |-> f, hash |-> v]
        : i \in 0..(ChunkCount(v) - 1) }

ContextDoc == [id |-> _generate_document_id(CTX, 0), relative_path |-> CTX, hash |-> 0]

FunctionDocs(f, v, names) ==
    { [id |-> _generate_function_id(f, n), relative_path |-> f, hash |-> v]
        : n \in names }

DocIds(coll) == { d.id : d \in coll }

\* collection.upsert: a document with an existing id is replaced
add_documents(coll, docs) ==
    { d \in coll : d.id \notin DocIds(docs) } \cup docs

\* collection.get(where={"relative_path": p}) followed by collection.delete(ids)
delete_where(coll, paths) == { d \in coll : d.relative_path \notin paths }

\* ------------------------------------------------------- checkpoint store
\* mutant: the threshold compared one too low
min_confidence_too_low_off_by_one(p) == ~p.completed /\ p.min_confidence < STOP_OK - 1

min_confidence_too_low(p) == ~p.completed /\ p.min_confidence < STOP_OK

\* mutant: the hash column is filled with the chunk count
mark_file_indexed_wrong_column(rows, f, h, chunks_count, err) ==
    [rows EXCEPT ![f] = [status |-> IF Truthy(err) THEN "failed" ELSE "completed",
                         hash |-> chunks_count, count |-> chunks_count, error |-> err]]

mark_file_indexed(rows, f, h, chunks_count, err) ==
    [rows EXCEPT ![f] = [status |-> IF Truthy(err) THEN "failed" ELSE "completed",
                         hash |-> h, count |-> chunks_count, error |-> err]]

mark_functions_indexed(rows, f, h, functions_count, err) ==
    [rows EXCEPT ![f] = [status |-> IF Truthy(err) THEN "failed" ELSE "completed",
                         hash |-> h, count |-> functions_count, error |-> err]]

\* mutant: a completed row with the current hash does not suppress reprocessing
should_reindex_file_never_skips(rows, f, current_hash) ==
    IF rows[f].status = "absent" THEN TRUE
    ELSE IF rows[f].status = "failed" THEN TRUE
    ELSE TRUE

should_reindex_file(rows, f, current_hash) ==
    IF rows[f].status = "absent" THEN TRUE
    ELSE IF rows[f].status = "failed" THEN TRUE
    ELSE IF rows[f].hash # current_hash THEN TRUE
    ELSE FALSE

should_reindex_functions_ignores_hash(rows, f, current_hash) ==
    IF rows[f].status = "absent" THEN TRUE
    ELSE IF rows[f].status = "failed" THEN TRUE
    ELSE FALSE

should_reindex_functions(rows, f, current_hash) ==
    IF rows[f].status = "absent" THEN TRUE
    ELSE IF rows[f].status = "failed" THEN TRUE
    ELSE IF rows[f].hash # current_hash THEN TRUE
    ELSE FALSE

\* mutant: completed counts every row, whatever its status
get_file_index_stats_counts_all(rows) ==
    [completed |-> Cardinality({ f \in Files : rows[f].status # "absent" }),
     failed |-> Cardinality({ f \in Files : rows[f].status = "failed" })]

get_file_index_stats(rows) ==
    [completed |-> Cardinality({ f \in Files : rows[f].status = "completed" }),
     failed |-> Cardinality({ f \in Files : rows[f].status = "failed" })]

\* ------------------------------------------------- project analysis data
Fields == {"project_description", "languages", "frameworks", "modules",
           "entry_points", "architecture"}

\* the two Optional[str] fields; the other four hold lists
ScalarFields == {"project_description", "architecture"}

\* next_path of a response or snapshot: [], paths none of which is an unread
\* file of the project, or paths with an unread file among them
NextPaths == {"empty", "stale", "fresh"}

\* ProjectAnalysisResult(project_path): description and architecture None,
\* the lists [], every confidence 0
NewState ==
    [conf |-> [f \in Fields |-> 0],
     value |-> [f \in Fields |-> IF f \in ScalarFields THEN None ELSE "empty"],
     iteration_count |-> 0,
     completed |-> FALSE]

NoAnalysisRow == [present |-> FALSE, conf |-> NewState.conf, value |-> NewState.value,
                  iteration_count |-> 0, completed |-> FALSE]

NoSnaps == [n \in 1..MAX_ITERATIONS |-> "absent"]

Min2(a, b) == IF a <= b THEN a ELSE b

Max2(a, b) == IF a >= b THEN a ELSE b

min_confidence(st) ==
    Min2(st.conf["project_description"],
    Min2(st.conf["languages"],
    Min2(st.conf["frameworks"],
    Min2(st.conf["modules"],
    Min2(st.conf["entry_points"], st.conf["architecture"])))))

avg_confidence(st) ==
    (st.conf["project_description"] + st.conf["languages"] + st.conf["frameworks"]
       + st.conf["modules"] + st.conf["entry_points"] + st.conf["architecture"])
      \div Cardinality(Fields)

\* AnalysisRepository.save_analysis: a list that is None is stored as []
save_project_analysis(st) ==
    [present |-> TRUE,
     conf |-> st.conf,
     value |-> [f \in Fields |-> IF f \notin ScalarFields /\ st.value[f] = None
                                 THEN "empty" ELSE st.value[f]],
     iteration_count |-> st.iteration_count,
     completed |-> st.completed]

\* AnalysisRepository.get_analysis of a row that is present
get_analysis(row) ==
    [conf |-> row.conf, value |-> row.value,
     iteration_count |-> row.iteration_count, completed |-> row.completed]

\* the project_analysis row as the index managers look at it
AnalysisSummary(row) ==
    [present |-> row.present, completed |-> row.completed,
     min_confidence |-> IF row.present THEN min_confidence(row) ELSE 0]

\* get_last_iteration(...)["snapshot"]["next_path"], [] when there is no row
get_last_iteration(rows) ==
    IF \A n \in 1..MAX_ITERATIONS : rows[n] = "absent" THEN "empty"
    ELSE LET last == CHOOSE n \in 1..MAX_ITERATIONS :
                        /\ rows[n] # "absent"
                        /\ \A m \in 1..MAX_ITERATIONS : rows[m] # "absent" => m <= n
         IN rows[last]

\* the responses of the provider: the two Optional[str] fields come with
\* the confidence cp[1], the four lists with cp[2]; nulls are the fields whose
\* value is null; 101 is a confidence the validation must refuse
Responses ==
    { [conf |-> [f \in Fields |-> IF f \in ScalarFields THEN cp[1] ELSE cp[2]],
       value |-> [f \in Fields |-> IF f \in nulls THEN None ELSE "given"],
       next_path |-> np]
        : cp \in ConfPairs, nulls \in {{}, Fields}, np \in NextPaths }

_validate_response(r) == \A f \in Fields : r.conf[f] \in 0..100

\* update_field of _update_state_from_response
update_field(current_value, current_conf, new_value, new_conf) ==
    IF new_conf > current_conf \/ current_value = None
    THEN [value |-> new_value, confidence |-> new_conf]
    ELSE [value |-> current_value, confidence |-> current_conf]

_update_state_from_response(st, r, iteration) ==
    [conf |-> [f \in Fields |->
                  update_field(st.value[f], st.conf[f], r.value[f], r.conf[f]).confidence],
     value |-> [f \in Fields |->
                  update_field(st.value[f], st.conf[f], r.value[f], r.conf[f]).value],
     iteration_count |-> iteration,
     completed |-> FALSE]

\* mutant: the average confidence is not looked at
final_completed_min_only(st) ==
    IF st.completed THEN TRUE
    ELSE IF min_confidence(st) >= MIN_CONFIDENCE_THRESHOLD THEN TRUE
    ELSE IF min_confidence(st) >= STOP_OK THEN TRUE
    ELSE FALSE

\* the completion rule of the final save
final_completed(st) ==
    IF st.completed THEN TRUE
    ELSE IF min_confidence(st) >= MIN_CONFIDENCE_THRESHOLD THEN TRUE
    ELSE IF min_confidence(st) >= STOP_OK THEN TRUE
    ELSE IF avg_confidence(st) >= STOP_AVG THEN TRUE
    ELSE FALSE

NoRun == [force |-> FALSE, wasCompleted |-> FALSE, entryCount |-> 0, iterations |-> 0,
          called |-> FALSE, failed |-> FALSE, inLoop |-> FALSE]

PAInit ==
    /\ paRow = NoAnalysisRow
    /\ snaps = NoSnaps
    /\ cur = NewState
    /\ next_files = "empty"
    /\ attempts = 0
    /\ paRun = NoRun
    /\ wasted = 0

\* ------------------------------------------------------ rate limiter data
\* RateLimiter(rpm, tpm): one request and two tokens per tick
RPM == MinuteTicks

TPM == 2 * MinuteTicks

\* execute_with_retry(func, max_retries=3, ...)
max_retries == 3

NoDemand == [tokens |-> 0, requests |-> 0, via |-> "none", waited |-> FALSE]

\* a minute that is not being observed
ClosedWindow == [age |-> MinuteTicks, requests |-> 0, tokens |-> 0]

refill_never(level, capacity, elapsed) == level

\* the refill without the cap at the capacity
refill_uncapped(level, capacity, elapsed) ==
    level + (elapsed * capacity) \div MinuteTicks

\* min(capacity, level + (elapsed / 60.0) * capacity)
refill(level, capacity, elapsed) ==
    Min2(capacity, level + (elapsed * capacity) \div MinuteTicks)

\* (demand - level) / (capacity / 60.0), in whole ticks
wait_time_of(need, level, capacity) ==
    IF need <= level THEN 0
    ELSE ((need - level) * MinuteTicks + capacity - 1) \div capacity

\* max(wait_time_requests, wait_time_tokens, 0.1): the sleep ends at a tick
wait_time(b, d) ==
    Max2(Max2(wait_time_of(d.requests, b.request_tokens, RPM),
              wait_time_of(d.tokens, b.token_tokens, TPM)), 1)

RLInit ==
    /\ bucket = [request_tokens |-> RPM, token_tokens |-> TPM, since |-> 0]
    /\ lockQ = <<>>
    /\ cpc = [c \in Callers |-> "idle"]
    /\ demand = [c \in Callers |-> NoDemand]
    /\ sleepLeft = 0
    /\ attempt = [c \in Callers |-> 0]
    /\ permit = [c \in Callers |-> "none"]
    /\ window = ClosedWindow

\* ----------------------------------------------------------- service data
\* the base_delay values tried for execute_with_retry (seconds)
BaseDelays == {1, 2, 4}

\* what func() can do: return, or raise an exception whose lowered message
\* holds the given markers (none of them: any other error)
Markers == {"rate", "429", "too many requests", "timeout", "timed out"}

Errors == {{}, {"rate"}, {"429"}, {"too many requests"}, {"timeout"},
           {"timed out"}, {"rate", "timeout"}}

NoOutcome == [kind |-> "none", msg |-> {}]

FuncOutcomes == {[kind |-> "ok", msg |-> {}]} \cup [kind : {"error"}, msg : Errors]

\* "rate" in error_str or "429" in error_str or "too many requests" in error_str
is_rate_limit(e) == e \cap {"rate", "429", "too many requests"} # {}

\* "timeout" in error_str or "timed out" in error_str
is_timeout(e) == e \cap {"timeout", "timed out"} # {}

classify(outcome) ==
    IF outcome.kind # "error" THEN outcome.kind
    ELSE IF is_rate_limit(outcome.msg) \/ is_timeout(outcome.msg) THEN "transient"
    ELSE "other"

RECURSIVE Pow2(_)
Pow2(k) == IF k = 0 THEN 1 ELSE 2 * Pow2(k - 1)

\* delay = base_delay * (2 ** attempt)
backoff_delay(base_delay, k) == base_delay * Pow2(k)

NoRetry == [pc |-> "idle", base_delay |-> 0, attempt |-> 0, log |-> <<>>,
            outcome |-> NoOutcome]

\* the files the observed call has to process
Pipelines == 1..NumPipelines

\* what `await iterative_analyzer.analyze(path, force_reindex)` can return:
\* the record of its final save
AnalyzeResults ==
    { LET st == [NewState EXCEPT
                   !.conf = [f \in Fields |-> IF f \in ScalarFields THEN cp[1] ELSE cp[2]]]
      IN [completed |-> final_completed(st), min_confidence |-> min_confidence(st)]
        : cp \in { p \in ConfPairs : p[1] <= 100 /\ p[2] <= 100 } }

\* the "status" of the dictionary an indexing call returns
IndexStatuses == {"success", "partial", "failed"}

NoFull == [pc |-> "idle", force |-> FALSE, started |-> <<>>,
           analysis |-> [completed |-> FALSE, min_confidence |-> 0],
           files |-> "none", functions |-> "none", status |-> "none",
           error |-> None]

\* str(e) of the AttributeError raised by the read of a missing config field
NoSuchField == "'IndexingConfig' object has no attribute 'max_concurrent_functions'"

NoFileProc == [pc |-> "idle", file |-> "a", content |-> 0, readable |-> TRUE,
               llm_fails |-> {}, embed_fails |-> {},
               functions |-> {}, docs |-> {}, func_count |-> 0, error |-> None]

\* estimate_tokens(line) of the lines tried: short lines, and a line that
\* alone exceeds max_tokens + overlap_tokens
LineTokens == {1, 2, max_tokens + overlap_tokens + 1}

\* a file is the sequence of its lines, a line being given by its tokens
ChunkInputs == UNION { [1..n -> LineTokens] : n \in 0..MaxLines }

RECURSIVE SumTokens(_, _)
\* the tokens of the lines numbered in ns (estimate_tokens taken as additive)
SumTokens(lines, ns) ==
    IF ns = <<>> THEN 0 ELSE lines[Head(ns)] + SumTokens(lines, Tail(ns))

\* estimate_tokens(content)
estimate_tokens(lines) == SumTokens(lines, [i \in 1..Len(lines) |-> i])

\* the whole previous chunk carried over, whatever its size
overlap_of_whole_chunk(lines, current_lines, taken) == current_lines

RECURSIVE overlap_of(_, _, _)
\* `for ol in reversed(current_lines)`: the longest tail of current_lines
\* taken line by line from the end while the count stays within overlap_tokens
overlap_of(lines, current_lines, taken) ==
    IF current_lines = <<>> THEN taken
    ELSE LET ol == current_lines[Len(current_lines)]
         IN IF SumTokens(lines, taken) + lines[ol] <= overlap_tokens
              THEN overlap_of(lines, SubSeq(current_lines, 1, Len(current_lines) - 1),
                              <<ol>> \o taken)
              ELSE taken

\* CodeChunk(content, chunk_index, total_chunks, start_line, end_line); the
\* content is given by the numbers of the lines joined into it
CodeChunk(content, chunk_index, total_chunks, start_line, end_line) ==
    [content |-> content, chunk_index |-> chunk_index, total_chunks |-> total_chunks,
     start_line |-> start_line, end_line |-> end_line]

NoChunking == [pc |-> "idle", lines |-> <<>>, i |-> 0, current_lines |-> <<>>,
               chunk_index |-> 0, start_line |-> 1, chunks |-> <<>>]

\* the documents a query can hit: chunks of files a and b, a document with
\* no relative_path, and the project context document
HitPaths == {"a", "b", "", "__project_context__"}
Purposes == {"p1", "p2"}
Distances == {0, 1}

\* what collection.query returns for one document
Hits == [relative_path : HitPaths, purpose : Purposes, distance : Distances]

\* chroma.search(..., n_results = n_results * 3): at most that many hits
HitLists(n_results) ==
    UNION { [1..n -> Hits] : n \in 0..(IF n_results * 3 < MaxHits THEN n_results * 3 ELSE MaxHits) }

\* score = 1 / (1 + distance), in hundredths
score_of(distance) == 100 \div (1 + distance)

NoSearch == [pc |-> "idle", hits |-> <<>>, n_results |-> 1, k |-> 0, files_dict |-> <<>>,
             status |-> "", files |-> <<>>]

\* the rows of the functions table, and an id that has no row
FunctionIds == {"f1", "f2", "f3"}
EntryIds == {"f1", "ghost"}

\* call_relations joined with functions: (caller_id, callee_id) pairs, self
\* calls and cycles included
CallGraphs == SUBSET (FunctionIds \X FunctionIds)

\* get_calls_from(func_id): the callees of the function
get_calls_from(graph, func_id) == { e[2] : e \in { g \in graph : g[1] = func_id } }

NoCallStack == [pc |-> "idle", graph |-> {}, entry |-> "f1", max_depth |-> 0,
                frames |-> <<>>, seen |-> {}, tree |-> {}]

\* the files of the resolver's maps; the call is made in caller_file
SourceFiles == {"a", "b", "c"}
caller_file == "a"

\* the module names tried, as call.module and as import_stmt.module:
\*   mod_b    the import rules resolve it to file b
\*   mod_c    the import rules resolve it to file c
\*   like_a   resolves to no file, its name and the stem of file a contain one another
\*   like_c   resolves to no file, matches the stem of file c
\*   like_bc  resolves to no file, matches the stems of files b and c
\*   ext      resolves to no file, matches no stem (an external library)
CallModules == {"mod_b", "mod_c", "like_a", "like_c", "like_bc", "ext"}

\* adapter.resolve_import(module, current_path, project_path), existing file
\* or None
_resolve_module_import(module) ==
    IF module = "mod_b" THEN "b" ELSE IF module = "mod_c" THEN "c" ELSE None

\* module_lower in file_name or file_name in module_lower
stem_matches(module, file) ==
    \/ module = "mod_b" /\ file = "b"
    \/ module = "mod_c" /\ file = "c"
    \/ module = "like_a" /\ file = "a"
    \/ module = "like_c" /\ file = "c"
    \/ module = "like_bc" /\ file \in {"b", "c"}

\* functions_map for the callee name: how many definitions of the name each
\* file holds
FunctionsMaps == [SourceFiles -> 0..MaxDefs]

\* the import statements of the caller file: the module, and whether the
\* callee name is among imported_names ("named"), imported_names is empty
\* ("wildcard") or holds other names only ("other")
ImportStatements == [module : {"mod_b", "mod_c", "ext"}, imported_names : {"named", "wildcard", "other"}]
ImportLists == UNION { [1..n -> ImportStatements] : n \in 0..MaxImports }

Unresolved == [confidence |-> "none", callee_file |-> None, rule |-> "unresolved"]

NoResolve == [pc |-> "idle", module |-> None, functions_map |-> [f \in SourceFiles |-> 0],
              imports |-> <<>>, resolved |-> Unresolved]

SvcInit ==
    /\ rcall = NoResolve
    /\ cstk = NoCallStack
    /\ srch = NoSearch
    /\ ck = NoChunking
    /\ fproc = NoFileProc
    /\ full = NoFull
    /\ retry = NoRetry
    /\ concOp = "idle"
    /\ pipe = [p \in Pipelines |-> "none"]
    /\ holds = {}

ExtInit == PAInit /\ RLInit /\ SvcInit

\* ------------------------------------------------------------------- Init
Init ==
    /\ disk = [f \in Files |-> 0]
    /\ pa = NoPA
    /\ fiRows = NoRows
    /\ fuiRows = NoRows
    /\ filesColl = {}
    /\ fnColl = {}
    /\ op = "idle"
    /\ pc = "idle"
    /\ todo = {}
    /\ pending = {}
    /\ stats = ZeroStats
    /\ result = "none"
    /\ error = ""
    /\ call = NoCall
    /\ changed = {}
    /\ skipAtStart = {}
    /\ analysed = {}
    /\ raised = {}
    /\ upserted = {}
    /\ rowsWritten = {}
    /\ ExtInit

\* ------------------------------------------------------------ environment
\* a file of the project is edited between two calls
ModifyFile(f) ==
    /\ op = "idle"
    /\ disk[f] < MaxVersion
    /\ disk' = [disk EXCEPT ![f] = @ + 1]
    /\ changed' = changed \cup {f}
    /\ UNCHANGED <<pa, store, local, call, trace>>
    /\ UNCHANGED ext

\* AnalysisRepository.save_analysis, as issued by the project analysis
save_analysis(rec) ==
    /\ op = "idle"
    /\ rec # pa
    /\ pa' = rec
    /\ UNCHANGED <<disk, store, local, history>>
    /\ UNCHANGED ext

\* AnalysisRepository.clear_project, as issued by analyze(force_reindex=True)
clear_project ==
    /\ op = "idle"
    /\ pa.present
    /\ pa' = NoPA
    /\ UNCHANGED <<disk, store, local, history>>
    /\ UNCHANGED ext

\* ----------------------------------------------------------- call entry
\* what every call records when it is entered: which call it is, whether the
\* analysis record was absent, below the readiness threshold or ready, whether
\* the File Index had a completed row, how the previous index_files ended and
\* which files were edited since
Enter(name, force, paths) ==
    /\ call' = [name |-> name, force |-> force, paths |-> paths,
                paState |-> IF ~pa.present THEN "absent"
                            ELSE IF pa.completed \/ pa.min_confidence >= 70 THEN "ready"
                            ELSE "low",
                fiDone |-> \E f \in Files : fiRows[f].status = "completed",
                prev |-> IF name = "index_files" /\ call.name = "index_files"
                         THEN result ELSE "other",
                modified |-> IF name = "index_files" THEN changed ELSE {}]
    /\ changed' = {}

\* the call goes on past its entry
Continue(name, at) ==
    /\ op' = name
    /\ pc' = at
    /\ result' = "none"
    /\ error' = ""
    /\ stats' = ZeroStats
    /\ pending' = {}
    /\ analysed' = {}
    /\ raised' = {}
    /\ upserted' = {}
    /\ rowsWritten' = {}

\* the call returns a status
Return(status, err) ==
    /\ op' = "idle"
    /\ pc' = "idle"
    /\ todo' = {}
    /\ pending' = {}
    /\ stats' = ZeroStats
    /\ result' = status
    /\ error' = err
    /\ skipAtStart' = {}
    /\ analysed' = {}
    /\ raised' = {}
    /\ upserted' = {}
    /\ rowsWritten' = {}

\* the process is killed (or the call cancelled) at a suspension point
Kill ==
    /\ op # "idle"
    /\ Return("killed", "")
    /\ UNCHANGED <<disk, pa, store, call, changed>>
    /\ UNCHANGED ext

\* ---------------------------------------------- FileIndexManager.index_files
\* Steps 1-2: load the analysis, enforce the precondition, handle force_reindex
\* (chroma.delete_collection is the first of the two force writes)
index_files(force) ==
    /\ op = "idle"
    /\ Enter("index_files", force, {})
    /\ IF ~pa.present
         THEN /\ Return("failed", "no_analysis")
              /\ UNCHANGED filesColl
       ELSE IF min_confidence_too_low(pa)
         THEN /\ Return("failed", "analysis_incomplete")
              /\ UNCHANGED filesColl
       ELSE /\ Continue("index_files", IF force THEN "clear" ELSE "context")
            /\ filesColl' = IF force THEN {} ELSE filesColl
            /\ skipAtStart' = IF force THEN {}
                              ELSE { f \in Files : fiRows[f].status = "completed"
                                                   /\ fiRows[f].hash = disk[f] }
            /\ todo' = {}
    /\ UNCHANGED <<disk, pa, fiRows, fuiRows, fnColl>>
    /\ UNCHANGED ext

\* Step 2, second write: checkpoint_manager.clear_file_index
clear_file_index ==
    /\ op = "index_files"
    /\ pc = "clear"
    /\ fiRows' = NoRows
    /\ pc' = "context"
    /\ UNCHANGED <<disk, pa, fuiRows, filesColl, fnColl, op, todo, pending, stats,
                   result, error, history>>
    /\ UNCHANGED ext

\* Steps 3-5: store the project context document, scan, filter by checkpoints
_store_project_context ==
    /\ op = "index_files"
    /\ pc = "context"
    /\ \E ok \in BOOLEAN :
         IF ok
           THEN /\ filesColl' = add_documents(filesColl, {ContextDoc})
                /\ upserted' = upserted \cup {CTX}
                /\ todo' = { f \in Files : should_reindex_file(fiRows, f, disk[f]) }
                /\ pc' = "process"
                /\ UNCHANGED <<op, pending, stats, result, error, skipAtStart,
                               analysed, raised, rowsWritten>>
           ELSE /\ Return("failed", "exception")
                /\ UNCHANGED filesColl
    /\ UNCHANGED <<disk, pa, fiRows, fuiRows, fnColl, call, changed>>
    /\ UNCHANGED ext

\* Step 6: process_file(file_meta) of one queued file; err = None when
\* _process_file returned its documents, else the str() of what it raised
process_file(f, err) ==
    /\ op = "index_files"
    /\ pc = "process"
    /\ f \in todo
    /\ todo' = todo \ {f}
    /\ analysed' = analysed \cup {f}
    /\ rowsWritten' = rowsWritten \cup {f}
    /\ IF err = None
         THEN /\ fiRows' = mark_file_indexed(fiRows, f, disk[f],
                                             Cardinality(FileDocs(f, disk[f])), None)
              /\ pending' = pending \cup FileDocs(f, disk[f])
              /\ stats' = [stats EXCEPT !.ok_files = @ + 1]
              /\ UNCHANGED raised
         ELSE /\ fiRows' = mark_file_indexed(fiRows, f, disk[f], 0, err)
              /\ raised' = raised \cup {f}
              /\ stats' = [stats EXCEPT !.failed_files =
                                          IF Truthy(err) THEN @ + 1 ELSE @]
              /\ UNCHANGED pending
    /\ UNCHANGED <<disk, pa, fuiRows, filesColl, fnColl, op, pc, result, error,
                   call, changed, skipAtStart, upserted>>
    /\ UNCHANGED ext

\* the status both managers compute from their counters
final_status(st) == IF st.failed_files = 0 THEN "success" ELSE "partial"

\* Step 7: store the collected documents
store_documents ==
    /\ op = "index_files"
    /\ pc = "process"
    /\ todo = {}
    /\ \E ok \in BOOLEAN :
         IF pending = {} \/ ok
           THEN /\ filesColl' = add_documents(filesColl, pending)
                /\ upserted' = upserted \cup { d.relative_path : d \in pending }
                /\ pc' = "return"
                /\ UNCHANGED <<op, todo, pending, stats, result, error,
                               skipAtStart, analysed, raised, rowsWritten>>
           ELSE /\ Return("failed", "exception")
                /\ UNCHANGED filesColl
    /\ UNCHANGED <<disk, pa, fiRows, fuiRows, fnColl, call, changed>>
    /\ UNCHANGED ext

\* the return of index_files after Step 7
index_files_return ==
    /\ op = "index_files"
    /\ pc = "return"
    /\ Return(final_status(stats), "")
    /\ UNCHANGED <<disk, pa, store, call, changed>>
    /\ UNCHANGED ext

\* --------------------------------------------- FileIndexManager.update_files
Paths == SUBSET Files \ {{}}

\* precondition, then chroma.delete_files_by_path: the lookups of `found`
\* succeed (a failed lookup is logged and skipped), then one delete of all ids;
\* found is all of the paths, or none when the store cannot be read
update_files(paths, found, ok) ==
    /\ op = "idle"
    /\ found \in {paths, {}}
    /\ Enter("update_files", FALSE, paths)
    /\ IF ~pa.present
         THEN /\ Return("failed", "no_analysis")
              /\ UNCHANGED filesColl
       ELSE IF min_confidence_too_low(pa)
         THEN /\ Return("failed", "analysis_incomplete")
              /\ UNCHANGED filesColl
       ELSE IF delete_where(filesColl, found) # filesColl /\ ~ok
         THEN /\ Return("failed", "exception")
              /\ UNCHANGED filesColl
       ELSE /\ Continue("update_files", "process")
            /\ filesColl' = delete_where(filesColl, found)
            /\ skipAtStart' = {}
            /\ todo' = paths
    /\ UNCHANGED <<disk, pa, fiRows, fuiRows, fnColl>>
    /\ UNCHANGED ext

\* one turn of the loop over file_paths
update_process_file(f, err) ==
    /\ op = "update_files"
    /\ pc = "process"
    /\ f \in todo
    /\ todo' = todo \ {f}
    /\ analysed' = analysed \cup {f}
    /\ IF err = None
         THEN /\ fiRows' = mark_file_indexed(fiRows, f, disk[f],
                                             Cardinality(FileDocs(f, disk[f])), None)
              /\ rowsWritten' = rowsWritten \cup {f}
              /\ pending' = pending \cup FileDocs(f, disk[f])
              /\ stats' = [stats EXCEPT !.ok_files = @ + 1]
              /\ UNCHANGED raised
         ELSE /\ raised' = raised \cup {f}
              /\ stats' = [stats EXCEPT !.failed_files = @ + 1]
              /\ UNCHANGED <<fiRows, rowsWritten, pending>>
    /\ UNCHANGED <<disk, pa, fuiRows, filesColl, fnColl, op, pc, result, error,
                   call, changed, skipAtStart, upserted>>
    /\ UNCHANGED ext

\* store the updated documents
update_store_documents ==
    /\ op = "update_files"
    /\ pc = "process"
    /\ todo = {}
    /\ \E ok \in BOOLEAN :
         IF pending = {} \/ ok
           THEN /\ filesColl' = add_documents(filesColl, pending)
                /\ upserted' = upserted \cup { d.relative_path : d \in pending }
                /\ pc' = "return"
                /\ UNCHANGED <<op, todo, pending, stats, result, error,
                               skipAtStart, analysed, raised, rowsWritten>>
           ELSE /\ Return("failed", "exception")
                /\ UNCHANGED filesColl
    /\ UNCHANGED <<disk, pa, fiRows, fuiRows, fnColl, call, changed>>
    /\ UNCHANGED ext

update_files_return ==
    /\ op = "update_files"
    /\ pc = "return"
    /\ Return(final_status(stats), "")
    /\ UNCHANGED <<disk, pa, store, call, changed>>
    /\ UNCHANGED ext

\* --------------------------------------------- FileIndexManager.remove_files
remove_files(paths, found, ok) ==
    /\ op = "idle"
    /\ found \in {paths, {}}
    /\ Enter("remove_files", FALSE, paths)
    /\ IF delete_where(filesColl, found) # filesColl /\ ~ok
         THEN /\ Return("failed", "exception")
              /\ UNCHANGED filesColl
         ELSE /\ Return("success", "")
              /\ filesColl' = delete_where(filesColl, found)
    /\ UNCHANGED <<disk, pa, fiRows, fuiRows, fnColl>>
    /\ UNCHANGED ext

\* ------------------------------------- FunctionIndexManager.index_functions
\* Steps 1-5 on the checkpoint rows `rows`: the preconditions, force_reindex
\* (chroma.delete_collection first), scan and filter by checkpoints
index_functions_body(name, force, paths, rows) ==
    /\ Enter(name, force, paths)
    /\ IF ~pa.present
         THEN /\ Return("failed", "no_analysis")
              /\ fuiRows' = rows
              /\ UNCHANGED fnColl
       ELSE IF min_confidence_too_low(pa)
         THEN /\ Return("failed", "analysis_incomplete")
              /\ fuiRows' = rows
              /\ UNCHANGED fnColl
       ELSE IF get_file_index_stats(fiRows).completed = 0
         THEN /\ Return("failed", "no_file_index")
              /\ fuiRows' = rows
              /\ UNCHANGED fnColl
       ELSE /\ Continue("index_functions", IF force THEN "clear" ELSE "process")
            /\ fnColl' = IF force THEN {} ELSE fnColl
            /\ fuiRows' = rows
            /\ skipAtStart' = {}
            /\ todo' = IF force THEN {}
                       ELSE { f \in Files : should_reindex_functions(rows, f, disk[f]) }
    /\ UNCHANGED <<disk, pa, fiRows, filesColl>>
    /\ UNCHANGED ext

index_functions(force) ==
    /\ op = "idle"
    /\ index_functions_body("index_functions", force, {}, fuiRows)

\* Step 2, second write: checkpoint_manager.clear_function_index, then the scan
clear_function_index ==
    /\ op = "index_functions"
    /\ pc = "clear"
    /\ fuiRows' = NoRows
    /\ todo' = Files
    /\ pc' = "process"
    /\ UNCHANGED <<disk, pa, fiRows, filesColl, fnColl, op, pending, stats,
                   result, error, history>>
    /\ UNCHANGED ext

\* mutant: config.indexing has the field, no file raises for reading it
has_inner_semaphore_field_exists(extracted_functions) == TRUE

\* `if not extracted_functions: return [], 0` is taken, so that the read of
\* self.config.indexing.max_concurrent_functions (AttributeError) is not reached
has_inner_semaphore(extracted_functions) == extracted_functions = {}

\* Step 6: process_file(file_meta) of one queued file.  err = None when
\* _process_file returned; embedded are the functions whose document was built
\* (analyze_single_function drops a function whose embedding raised).
\* _process_file returns only for a file with no function: for any other file
\* it raises, because config.indexing.max_concurrent_functions does not exist
fn_process_file(f, err, embedded) ==
    /\ op = "index_functions"
    /\ pc = "process"
    /\ f \in todo
    /\ todo' = todo \ {f}
    /\ analysed' = analysed \cup {f}
    /\ rowsWritten' = rowsWritten \cup {f}
    /\ IF err = None
         THEN /\ has_inner_semaphore(FuncsOf(disk[f]))
              /\ embedded \subseteq FuncsOf(disk[f])
              /\ fuiRows' = mark_functions_indexed(fuiRows, f, disk[f],
                                                   Cardinality(FuncsOf(disk[f])), None)
              /\ pending' = pending \cup FunctionDocs(f, disk[f], embedded)
              /\ stats' = [stats EXCEPT !.ok_files = @ + 1]
              /\ UNCHANGED raised
         ELSE /\ embedded = {}
              /\ fuiRows' = mark_functions_indexed(fuiRows, f, disk[f], 0, err)
              /\ raised' = raised \cup {f}
              /\ stats' = IF Truthy(err)
                          THEN [stats EXCEPT !.failed_files = @ + 1]
                          ELSE [stats EXCEPT !.ok_files = @ + 1]
              /\ UNCHANGED pending
    /\ UNCHANGED <<disk, pa, fiRows, filesColl, fnColl, op, pc, result, error,
                   call, changed, skipAtStart, upserted>>
    /\ UNCHANGED ext

\* Step 7: store the collected function documents
fn_store_documents ==
    /\ op = "index_functions"
    /\ pc = "process"
    /\ todo = {}
    /\ \E ok \in BOOLEAN :
         IF pending = {} \/ ok
           THEN /\ fnColl' = add_documents(fnColl, pending)
                /\ upserted' = upserted \cup { d.relative_path : d \in pending }
                /\ pc' = "return"
                /\ UNCHANGED <<op, todo, pending, stats, result, error,
                               skipAtStart, analysed, raised, rowsWritten>>
           ELSE /\ Return("failed", "exception")
                /\ UNCHANGED fnColl
    /\ UNCHANGED <<disk, pa, fiRows, fuiRows, filesColl, call, changed>>
    /\ UNCHANGED ext

index_functions_return ==
    /\ op = "index_functions"
    /\ pc = "return"
    /\ Return(final_status(stats), "")
    /\ UNCHANGED <<disk, pa, store, call, changed>>
    /\ UNCHANGED ext

\* FunctionIndexManager.update_files: delete the rows of the paths, then
\* index_functions(force_reindex=False)
fn_update_files(paths) ==
    /\ op = "idle"
    /\ index_functions_body("fn_update_files", FALSE, paths,
                            [f \in Files |-> IF f \in paths THEN NoRow ELSE fuiRows[f]])

\* FunctionIndexManager.remove_files: the loop deletes the documents of the
\* paths one at a time; done are the paths reached before a store error, if any
fn_remove_files(paths, done) ==
    /\ op = "idle"
    /\ done \subseteq paths
    /\ Enter("fn_remove_files", FALSE, paths)
    /\ fnColl' = delete_where(fnColl, done)
    /\ IF done = paths THEN Return("success", "") ELSE Return("failed", "exception")
    /\ UNCHANGED <<disk, pa, fiRows, fuiRows, filesColl>>
    /\ UNCHANGED ext

FINext ==
    \/ \E force \in BOOLEAN : index_files(force)
    \/ clear_file_index
    \/ _store_project_context
    \/ \E f \in Files, err \in ErrMsgs \cup {None} : process_file(f, err)
    \/ store_documents
    \/ index_files_return

FIMaintNext ==
    \/ \E paths \in Paths, found \in SUBSET Files, ok \in BOOLEAN :
          update_files(paths, found, ok)
    \/ \E f \in Files, err \in ErrMsgs \cup {None} : update_process_file(f, err)
    \/ update_store_documents
    \/ update_files_return

FIRemoveNext ==
    \E paths \in Paths, found \in SUBSET Files, ok \in BOOLEAN :
       remove_files(paths, found, ok)

FuINext ==
    \/ \E force \in BOOLEAN : index_functions(force)
    \/ clear_function_index
    \/ \E f \in Files, err \in ErrMsgs \cup {None} :
          \E embedded \in SUBSET FuncsOf(disk[f]) : fn_process_file(f, err, embedded)
    \/ fn_store_documents
    \/ index_functions_return
    \/ \E paths \in Paths : fn_update_files(paths)
    \/ \E paths \in Paths, done \in SUBSET Files : fn_remove_files(paths, done)

PAEnvNext ==
    \/ \E rec \in PAStates : save_analysis(rec)
    \/ clear_project

EnvNext ==
    \/ \E f \in Files : ModifyFile(f)
    \/ PAEnvNext
    \/ Kill

\* the File Index under construction
Next == FINext \/ EnvNext

Spec == Init /\ [][Next]_vars

\* ------------------------------------------------------------------------
\* The Function Index and the removal entry points.  The File Index does not
\* move here; the project starts in one of four states index_files leaves:
\*   Fresh      nothing analysed or indexed yet
\*   Indexed    index_files returned success under a ready analysis
\*   AllFailed  index_files returned partial, every file failed
\*   Dropped    the functions were indexed, then index_files(force) was
\*              killed right after clear_file_index
AllCompleted == [f \in Files |-> [status |-> "completed", hash |-> 0,
                                  count |-> ChunkCount(0), error |-> None]]

ReadyPA == [present |-> TRUE, completed |-> FALSE, min_confidence |-> STOP_OK]

Fresh ==
    /\ pa = NoPA
    /\ fiRows = NoRows
    /\ filesColl = {}
    /\ fuiRows = NoRows
    /\ fnColl = {}
    /\ call = NoCall
    /\ result = "none"

Indexed ==
    /\ pa = ReadyPA
    /\ fiRows = AllCompleted
    /\ filesColl = {ContextDoc} \cup UNION { FileDocs(f, 0) : f \in Files }
    /\ fuiRows = NoRows
    /\ fnColl = {}
    /\ call = [NoCall EXCEPT !.name = "index_files", !.paState = "ready"]
    /\ result = "success"

AllFailed ==
    /\ pa = ReadyPA
    /\ fiRows = [f \in Files |-> [status |-> "failed", hash |-> 0,
                                  count |-> 0, error |-> "boom"]]
    /\ filesColl = {ContextDoc}
    /\ fuiRows = NoRows
    /\ fnColl = {}
    /\ call = [NoCall EXCEPT !.name = "index_files", !.paState = "ready"]
    /\ result = "partial"

Dropped ==
    /\ pa = ReadyPA
    /\ fiRows = NoRows
    /\ filesColl = {}
    /\ fuiRows = [f \in Files |-> [status |-> "completed", hash |-> 0,
                                   count |-> Cardinality(FuncsOf(0)), error |-> None]]
    /\ fnColl = UNION { FunctionDocs(f, 0, FuncsOf(0)) : f \in Files }
    /\ call = [NoCall EXCEPT !.name = "index_files", !.paState = "ready",
                             !.force = TRUE, !.fiDone = TRUE]
    /\ result = "killed"

InitFuI ==
    /\ disk = [f \in Files |-> 0]
    /\ op = "idle"
    /\ pc = "idle"
    /\ todo = {}
    /\ pending = {}
    /\ stats = ZeroStats
    /\ error = ""
    /\ changed = {}
    /\ skipAtStart = {}
    /\ analysed = {}
    /\ raised = {}
    /\ upserted = {}
    /\ rowsWritten = {}
    /\ ExtInit
    /\ (Fresh \/ Indexed \/ AllFailed \/ Dropped)

NextFuI == FuINext \/ FIRemoveNext \/ PAEnvNext \/ Kill

SpecFuI == InitFuI /\ [][NextFuI]_vars

\* the Function Index over files that are edited between the calls
NextFuIEdit == FuINext \/ \E f \in Files : ModifyFile(f)

SpecFuIEdit == InitFuI /\ [][NextFuIEdit]_vars

\* the maintenance entry points of the File Index, from the same four states
NextMaint == FIMaintNext \/ FIRemoveNext \/ Kill

SpecMaint == InitFuI /\ [][NextMaint]_vars

\* refresh_file_index / update_file_index after files were edited: the only
\* thing either entry point calls is FileIndexManager.update_files
refresh_file_index ==
    \/ \E paths \in Paths, found \in SUBSET Files, ok \in BOOLEAN :
          update_files(paths, found, ok)
    \/ \E f \in Files, err \in ErrMsgs \cup {None} : update_process_file(f, err)
    \/ update_store_documents
    \/ update_files_return

NextRefresh ==
    \/ refresh_file_index
    \/ FIRemoveNext
    \/ \E f \in Files : ModifyFile(f)

SpecRefresh == InitFuI /\ [][NextRefresh]_vars

\* ------------------------------------------------------------------------
\* The iterative project analysis: IterativeProjectAnalyzer.analyze
PAFrame == UNCHANGED <<disk, store, todo, pending, stats, error, history, rlVars, svcVars>>

\* mutant: a completed record does not end the call
already_complete_never(row) == row.present /\ row.completed /\ row.iteration_count < 0

\* Step 2: existing and existing.completed
already_complete(row) == row.present /\ row.completed

\* CheckpointManager.clear_project_analysis: both tables, one commit
clear_project_analysis(row, rows) == <<NoAnalysisRow, NoSnaps>>

\* Steps 1-4: force_reindex clears the record and its snapshots; a completed
\* record is returned as it is; otherwise the state is created or restored
\* and the first files to read are chosen.  first_level tells whether
\* _collect_first_level_files finds a file
analyze(force, first_level) ==
    /\ op = "idle"
    /\ LET cleared == clear_project_analysis(paRow, snaps)
           row == IF force THEN cleared[1] ELSE paRow
           rows == IF force THEN cleared[2] ELSE snaps
           state == IF row.present THEN get_analysis(row) ELSE NewState
       IN /\ paRow' = row
          /\ snaps' = rows
          /\ pa' = AnalysisSummary(row)
          /\ paRun' = [NoRun EXCEPT !.force = force,
                                    !.wasCompleted = paRow.present /\ paRow.completed,
                                    !.entryCount = row.iteration_count]
          /\ wasted' = IF force THEN 0 ELSE wasted
          /\ attempts' = 0
          /\ IF already_complete(row)
               THEN /\ op' = "idle"
                    /\ pc' = "idle"
                    /\ result' = "returned"
                    /\ cur' = NewState
                    /\ next_files' = "empty"
               ELSE /\ op' = "analyze"
                    /\ pc' = "loop"
                    /\ result' = "none"
                    /\ cur' = state
                    /\ next_files' = IF state.iteration_count = 0 THEN first_level
                                     ELSE get_last_iteration(rows)
    /\ PAFrame

\* mutant: the loop runs one iteration more
loop_exhausted_one_more(st) == st.iteration_count > MAX_ITERATIONS

\* for iteration in range(current_state.iteration_count, MAX_ITERATIONS)
loop_exhausted(st) == st.iteration_count >= MAX_ITERATIONS

\* mutant: one attempt more than max_retries
retries_exhausted_one_more(made) == made > RETRIES

\* for attempt in range(max_retries), then the raise
retries_exhausted(made) == made >= RETRIES

\* the rule applied when no file is left to read
no_more_files_completed(st) ==
    IF min_confidence(st) >= MIN_CONFIDENCE_THRESHOLD THEN TRUE
    ELSE IF min_confidence(st) >= STOP_OK THEN TRUE
    ELSE FALSE

\* Step 5, head of the loop body: the range check, _filter_valid_paths and
\* the reading of the files
iteration_begin ==
    /\ op = "analyze"
    /\ pc = "loop"
    /\ IF loop_exhausted(cur)
         THEN /\ pc' = "final"
              /\ UNCHANGED <<cur, attempts, paRun, wasted>>
       ELSE IF next_files # "fresh"
         THEN /\ pc' = "final"
              /\ cur' = [cur EXCEPT !.completed = no_more_files_completed(cur)]
              /\ paRun' = [paRun EXCEPT !.inLoop = no_more_files_completed(cur)]
              /\ UNCHANGED <<attempts, wasted>>
       ELSE /\ pc' = "llm"
            /\ attempts' = 0
            /\ paRun' = [paRun EXCEPT !.iterations = @ + 1]
            /\ UNCHANGED <<cur, wasted>>
    /\ UNCHANGED <<pa, op, result, paRow, snaps, next_files>>
    /\ PAFrame

\* CheckpointManager.save_analysis_iteration: an upsert on
\* (project_path, iteration), committed
save_analysis_iteration(rows, iteration, next_path) ==
    [rows EXCEPT ![iteration] = next_path]

\* one attempt of _call_llm_with_validation that obtained the JSON r; a valid
\* r is merged by _update_state_from_response and the snapshot of the
\* iteration is saved
llm_response(r) ==
    /\ op = "analyze"
    /\ pc = "llm"
    /\ attempts' = attempts + 1
    /\ IF _validate_response(r)
         THEN /\ cur' = _update_state_from_response(cur, r, cur.iteration_count + 1)
              /\ next_files' = r.next_path
              /\ snaps' = save_analysis_iteration(snaps, cur.iteration_count + 1,
                                                  r.next_path)
              /\ pc' = "save"
              /\ paRun' = [paRun EXCEPT !.called = TRUE]
         ELSE /\ pc' = IF retries_exhausted(attempts + 1) THEN "final" ELSE "llm"
              /\ paRun' = [paRun EXCEPT !.called = TRUE,
                                        !.failed = retries_exhausted(attempts + 1)]
              /\ UNCHANGED <<cur, next_files, snaps>>
    /\ UNCHANGED <<pa, op, result, paRow, wasted>>
    /\ PAFrame

\* one attempt that raised: json.JSONDecodeError, or an error of the provider
llm_raises(kind) ==
    /\ op = "analyze"
    /\ pc = "llm"
    /\ attempts' = attempts + 1
    /\ pc' = IF retries_exhausted(attempts + 1) THEN "final" ELSE "llm"
    /\ paRun' = [paRun EXCEPT !.called = TRUE, !.failed = retries_exhausted(attempts + 1)]
    /\ UNCHANGED <<pa, op, result, paRow, snaps, cur, next_files, wasted>>
    /\ PAFrame

\* analysis_repo.save_analysis(current_state), committed, then the
\* completion check of the loop
save_current_state ==
    /\ op = "analyze"
    /\ pc = "save"
    /\ paRow' = save_project_analysis(cur)
    /\ pa' = AnalysisSummary(save_project_analysis(cur))
    /\ IF min_confidence(cur) >= MIN_CONFIDENCE_THRESHOLD /\ next_files = "empty"
         THEN /\ cur' = [cur EXCEPT !.completed = TRUE]
              /\ paRun' = [paRun EXCEPT !.inLoop = TRUE]
              /\ pc' = "final"
         ELSE /\ pc' = "loop"
              /\ UNCHANGED <<cur, paRun>>
    /\ UNCHANGED <<op, result, snaps, next_files, attempts, wasted>>
    /\ PAFrame

\* the final save and the return of analyze
final_save ==
    /\ op = "analyze"
    /\ pc = "final"
    /\ paRow' = save_project_analysis([cur EXCEPT !.completed = final_completed(cur)])
    /\ pa' = AnalysisSummary(paRow')
    /\ op' = "idle"
    /\ pc' = "idle"
    /\ result' = "done"
    /\ cur' = NewState
    /\ next_files' = "empty"
    /\ attempts' = 0
    /\ paRun' = NoRun
    /\ wasted' = IF paRun.failed THEN Min2(wasted + 1, MaxWasted) ELSE wasted
    /\ UNCHANGED snaps
    /\ PAFrame

\* the process is killed while analyze runs
analyze_killed ==
    /\ op = "analyze"
    /\ op' = "idle"
    /\ pc' = "idle"
    /\ result' = "killed"
    /\ cur' = NewState
    /\ next_files' = "empty"
    /\ attempts' = 0
    /\ paRun' = NoRun
    /\ wasted' = IF pc \in {"llm", "save"} \/ paRun.failed
                 THEN Min2(wasted + 1, MaxWasted) ELSE wasted
    /\ UNCHANGED <<pa, paRow, snaps>>
    /\ PAFrame

NextPA ==
    \/ \E force \in BOOLEAN, first_level \in {"empty", "fresh"} : analyze(force, first_level)
    \/ iteration_begin
    \/ \E r \in Responses : llm_response(r)
    \/ \E kind \in {"json", "error"} : llm_raises(kind)
    \/ save_current_state
    \/ final_save
    \/ analyze_killed

SpecPA == Init /\ [][NextPA]_vars

\* ---------------------------------------------------------- rate limiter
RLFrame == UNCHANGED <<disk, pa, store, local, history, paVars, svcVars>>

\* the quantities the call sites ask for: one request, few or many tokens
TokenDemands == {1, TPM}

\* how the call that follows the acquire is issued: "direct" calls the
\* provider once, "retry" hands it to execute_with_retry
Vias == {"direct", "retry"}

\* await rate_limiter.acquire(tokens, request_count=1): the caller queues
\* for self.lock (asyncio.Lock wakes its waiters in arrival order)
acquire(c, tokens, via) ==
    /\ cpc[c] = "idle"
    /\ cpc' = [cpc EXCEPT ![c] = "queued"]
    /\ lockQ' = Append(lockQ, c)
    /\ demand' = [demand EXCEPT ![c] = [tokens |-> tokens, requests |-> 1,
                                        via |-> via, waited |-> FALSE]]
    /\ permit' = [permit EXCEPT ![c] = "none"]
    /\ attempt' = [attempt EXCEPT ![c] = 0]
    /\ UNCHANGED <<bucket, sleepLeft, window>>
    /\ RLFrame

\* one pass of the while loop by the holder of the lock: refill, then
\* consume and leave, or sleep wait_time with the lock still held
acquire_check(c) ==
    /\ lockQ # <<>>
    /\ Head(lockQ) = c
    /\ \/ cpc[c] = "queued"
       \/ cpc[c] = "sleeping" /\ sleepLeft = 0
    /\ LET filled == [request_tokens |-> refill(bucket.request_tokens, RPM, bucket.since),
                      token_tokens |-> refill(bucket.token_tokens, TPM, bucket.since),
                      since |-> 0]
           d == demand[c]
       IN IF filled.request_tokens >= d.requests /\ filled.token_tokens >= d.tokens
            THEN /\ bucket' = [filled EXCEPT !.request_tokens = @ - d.requests,
                                             !.token_tokens = @ - d.tokens]
                 /\ lockQ' = Tail(lockQ)
                 /\ cpc' = [cpc EXCEPT ![c] = "granted"]
                 /\ permit' = [permit EXCEPT ![c] = "fresh"]
                 /\ window' = IF window.age < MinuteTicks
                                THEN [window EXCEPT !.requests = @ + d.requests,
                                                    !.tokens = @ + d.tokens]
                                ELSE window
                 /\ UNCHANGED <<sleepLeft, demand>>
            ELSE /\ bucket' = filled
                 /\ sleepLeft' = wait_time(filled, d)
                 /\ cpc' = [cpc EXCEPT ![c] = "sleeping"]
                 /\ demand' = [demand EXCEPT ![c].waited = TRUE]
                 /\ UNCHANGED <<lockQ, permit, window>>
    /\ UNCHANGED attempt
    /\ RLFrame

\* time.time() advances by one tick
Tick ==
    /\ bucket' = [bucket EXCEPT !.since = Min2(@ + 1, MinuteTicks)]
    /\ sleepLeft' = Max2(sleepLeft - 1, 0)
    /\ window' = [window EXCEPT !.age = Min2(@ + 1, MinuteTicks)]
    /\ UNCHANGED <<lockQ, cpc, demand, attempt, permit>>
    /\ RLFrame

\* an observer starts counting what is granted during the coming minute
StartWindow ==
    /\ window.age > 0
    /\ window' = [age |-> 0, requests |-> 0, tokens |-> 0]
    /\ UNCHANGED <<bucket, lockQ, cpc, demand, sleepLeft, attempt, permit>>
    /\ RLFrame

ProviderOutcomes == {"ok", "transient", "other"}

retry_again_any_error(via, outcome, made) ==
    /\ via = "retry"
    /\ outcome # "ok"
    /\ made < max_retries - 1

\* "rate"/"429"/"too many requests"/"timeout" in the message, and not the
\* last attempt: sleep and call func() again
retry_again(via, outcome, made) ==
    /\ via = "retry"
    /\ outcome = "transient"
    /\ made < max_retries - 1

\* the provider call that follows the acquire: called once when direct,
\* by each attempt of execute_with_retry otherwise
provider_call(c, outcome) ==
    /\ cpc[c] \in {"granted", "retrying"}
    /\ permit' = [permit EXCEPT ![c] = IF @ = "fresh" THEN "spent" ELSE "missing"]
    /\ IF retry_again(demand[c].via, outcome, attempt[c])
         THEN /\ attempt' = [attempt EXCEPT ![c] = @ + 1]
              /\ cpc' = [cpc EXCEPT ![c] = "retrying"]
         ELSE /\ attempt' = [attempt EXCEPT ![c] = 0]
              /\ cpc' = [cpc EXCEPT ![c] = "idle"]
    /\ UNCHANGED <<bucket, lockQ, demand, sleepLeft, window>>
    /\ RLFrame

RLCallerNext ==
    \E c \in Callers :
        \/ \E tokens \in TokenDemands, via \in Vias : acquire(c, tokens, via)
        \/ acquire_check(c)
        \/ \E outcome \in ProviderOutcomes : provider_call(c, outcome)

NextRL ==
    \/ RLCallerNext
    \/ Tick
    \/ StartWindow

SpecRL == Init /\ [][NextRL]_vars

\* the event loop runs every coroutine that is ready and the clock advances
NextRLFair ==
    \/ RLCallerNext
    \/ Tick

RLFairness ==
    /\ WF_vars(Tick)
    /\ \A c \in Callers : WF_vars(acquire_check(c))

SpecRLFair == Init /\ [][NextRLFair]_vars /\ RLFairness

\* the call sites ask for fixed amounts (200 to 2000 tokens) whatever the
\* configured limit: with a small RATE_LIMIT_TPM the demand exceeds the bucket
AnyTokenDemands == TokenDemands \cup {TPM + 1}

NextRLAny ==
    \/ \E c \in Callers :
          \/ \E tokens \in AnyTokenDemands, via \in Vias : acquire(c, tokens, via)
          \/ acquire_check(c)
          \/ \E outcome \in ProviderOutcomes : provider_call(c, outcome)
    \/ Tick

SpecRLAny == Init /\ [][NextRLAny]_vars /\ RLFairness

\* ------------------------------------------------------ execute_with_retry
SvcFrame == UNCHANGED <<disk, pa, store, local, history, paVars, rlVars>>

RetryFrame == SvcFrame /\ UNCHANGED <<concOp, pipe, holds, full, fproc, ck, srch, cstk, rcall>>

\* await rate_limiter.execute_with_retry(func): max_retries is left at its
\* default by every caller
execute_with_retry(base_delay) ==
    /\ retry.pc \in {"idle", "returned", "raised"}
    /\ retry' = [NoRetry EXCEPT !.pc = "call", !.base_delay = base_delay]
    /\ RetryFrame

\* one pass of `for attempt in range(max_retries)`: result = await func()
retry_attempt(outcome) ==
    /\ retry.pc = "call"
    /\ retry.attempt < max_retries
    /\ LET called == [retry EXCEPT !.log = Append(@, <<"call", retry.attempt>>),
                                   !.outcome = outcome]
       IN retry' =
            IF outcome.kind = "ok" THEN [called EXCEPT !.pc = "returned"]
            ELSE IF retry_again("retry", classify(outcome), retry.attempt)
                   THEN [called EXCEPT !.pc = "sleep"]
                   ELSE [called EXCEPT !.pc = "raised"]
    /\ RetryFrame

\* await asyncio.sleep(delay); continue
retry_sleep ==
    /\ retry.pc = "sleep"
    /\ retry' = [retry EXCEPT
                   !.log = Append(@, <<"sleep", backoff_delay(retry.base_delay, retry.attempt)>>),
                   !.attempt = @ + 1,
                   !.pc = "call"]
    /\ RetryFrame

NextRetry ==
    \/ \E base_delay \in BaseDelays : execute_with_retry(base_delay)
    \/ \E outcome \in FuncOutcomes : retry_attempt(outcome)
    \/ retry_sleep

SpecRetry == Init /\ [][NextRetry]_vars

\* ------------------------------------------------- bounded concurrency
ConcFrame == SvcFrame /\ UNCHANGED <<retry, full, fproc, ck, srch, cstk, rcall>>

ConcOps == {"index_files", "index_functions", "update_files"}

\* the pipelines between `async with sem` and its release
in_flight == { p \in Pipelines : pipe[p] \in {"running", "llm"} }

\* asyncio.Semaphore(max_concurrent_files): a slot is free
sem_free(held) == Cardinality(held) < max_concurrent_files

\* Step 6 of index_files / index_functions: tasks = [process_file(fm) ...]
\* and gather; update_files loops over its paths instead
conc_start(o) ==
    /\ concOp = "idle"
    /\ concOp' = o
    /\ pipe' = [p \in Pipelines |-> "waiting"]
    /\ holds' = {}
    /\ ConcFrame

\* async with sem: of process_file
sem_enter(p) ==
    /\ concOp \in {"index_files", "index_functions"}
    /\ pipe[p] = "waiting"
    /\ sem_free(holds)
    /\ holds' = holds \cup {p}
    /\ pipe' = [pipe EXCEPT ![p] = "running"]
    /\ UNCHANGED concOp
    /\ ConcFrame

\* FileIndexManager._process_file reaches its chat_completion call
fi_llm_call(p) ==
    /\ concOp = "index_files"
    /\ pipe[p] = "running"
    /\ pipe' = [pipe EXCEPT ![p] = "llm"]
    /\ UNCHANGED <<concOp, holds>>
    /\ ConcFrame

\* the pipeline returns or raises; process_file writes the row and leaves sem
pipeline_end(p) ==
    /\ concOp \in {"index_files", "update_files"}
    /\ pipe[p] = "llm"
    /\ pipe' = [pipe EXCEPT ![p] = "done"]
    /\ holds' = holds \ {p}
    /\ UNCHANGED concOp
    /\ ConcFrame

\* FunctionIndexManager._process_file: a file with no function returns at
\* once, and for any other file reading config.indexing.max_concurrent_functions
\* raises AttributeError (IndexingConfig has no such field), so the pipeline
\* ends before any function is analysed
fn_pipeline_end(p) ==
    /\ concOp = "index_functions"
    /\ pipe[p] = "running"
    /\ pipe' = [pipe EXCEPT ![p] = "done"]
    /\ holds' = holds \ {p}
    /\ UNCHANGED concOp
    /\ ConcFrame

\* update_files: `for file_path_str in file_paths` calls _process_file for
\* one path after the other, with no semaphore
upd_process_file(p) ==
    /\ concOp = "update_files"
    /\ pipe[p] = "waiting"
    /\ \A q \in Pipelines : q < p => pipe[q] = "done"
    /\ pipe' = [pipe EXCEPT ![p] = "llm"]
    /\ UNCHANGED <<concOp, holds>>
    /\ ConcFrame

conc_return ==
    /\ concOp # "idle"
    /\ \A p \in Pipelines : pipe[p] = "done"
    /\ concOp' = "idle"
    /\ pipe' = [p \in Pipelines |-> "none"]
    /\ holds' = {}
    /\ ConcFrame

NextConc ==
    \/ \E o \in ConcOps : conc_start(o)
    \/ \E p \in Pipelines :
          \/ sem_enter(p)
          \/ fi_llm_call(p)
          \/ pipeline_end(p)
          \/ fn_pipeline_end(p)
          \/ upd_process_file(p)
    \/ conc_return

SpecConc == Init /\ [][NextConc]_vars

\* ----------------------------------------------------- full_project_index
FullFrame == SvcFrame /\ UNCHANGED <<retry, concOp, pipe, holds, fproc, ck, srch, cstk, rcall>>

\* mutant: the analysis is not looked at
can_proceed_always(r) == TRUE

\* `if not analysis_result.completed: ... if min_conf >= 70` is passed
can_proceed(r) == r.completed \/ r.min_confidence >= STOP_OK

\* full_project_index(project_path, force_reindex) up to its first await
full_project_index(force, exists) ==
    /\ full.pc \in {"idle", "returned"}
    /\ full' = IF exists
                 THEN [NoFull EXCEPT !.pc = "analyze", !.force = force,
                                     !.started = <<"analyze">>]
                 ELSE [NoFull EXCEPT !.pc = "returned", !.force = force,
                                     !.status = "failed",
                                     !.error = "Project path does not exist"]
    /\ FullFrame

\* analyze returned r (or raised): stop, or go on to index_files
full_analyze_done(r, threw) ==
    /\ full.pc = "analyze"
    /\ full' = IF threw # None
                 THEN [full EXCEPT !.pc = "returned", !.status = "failed",
                                   !.error = threw]
                 ELSE IF can_proceed(r)
                   THEN [full EXCEPT !.pc = "index_files", !.analysis = r,
                                     !.started = Append(@, "index_files")]
                   ELSE [full EXCEPT !.pc = "returned", !.analysis = r,
                                     !.status = "partial"]
    /\ FullFrame

\* index_files returned st (or raised): stop, or go on to index_functions
full_index_files_done(st, threw) ==
    /\ full.pc = "index_files"
    /\ full' = IF threw # None
                 THEN [full EXCEPT !.pc = "returned", !.status = "failed",
                                   !.error = threw]
                 ELSE IF st = "failed"
                   THEN [full EXCEPT !.pc = "returned", !.files = st,
                                     !.status = "partial"]
                   ELSE [full EXCEPT !.pc = "index_functions", !.files = st,
                                     !.started = Append(@, "index_functions")]
    /\ FullFrame

\* index_functions returned st (or raised): the overall status
full_index_functions_done(st, threw) ==
    /\ full.pc = "index_functions"
    /\ full' = IF threw # None
                 THEN [full EXCEPT !.pc = "returned", !.status = "failed",
                                   !.error = threw]
                 ELSE [full EXCEPT
                         !.pc = "returned", !.functions = st,
                         !.status = IF full.analysis.completed /\ full.files = "success"
                                       /\ st = "success"
                                      THEN "success" ELSE "partial"]
    /\ FullFrame

NextFull ==
    \/ \E force \in BOOLEAN, exists \in BOOLEAN : full_project_index(force, exists)
    \/ \E r \in AnalyzeResults, threw \in ErrMsgs \cup {None} : full_analyze_done(r, threw)
    \/ \E st \in IndexStatuses, threw \in ErrMsgs \cup {None} : full_index_files_done(st, threw)
    \/ \E st \in IndexStatuses, threw \in ErrMsgs \cup {None} : full_index_functions_done(st, threw)

SpecFull == Init /\ [][NextFull]_vars

\* ------------------------------------ FunctionIndexManager._process_file
FileProcFrame == SvcFrame /\ UNCHANGED <<retry, concOp, pipe, holds, full, ck, srch, cstk, rcall>>

\* process_file(file_meta) calls _process_file for a file of the given
\* content; readable, llm_fails and embed_fails say what the file system, the
\* LLM provider and the embedding provider do when they are asked
fp_process_file(f, content, readable, llm_fails, embed_fails) ==
    /\ fproc.pc \in {"idle", "returned", "raised"}
    /\ llm_fails \subseteq FuncsOf(content)
    /\ embed_fails \subseteq FuncsOf(content)
    /\ fproc' = [NoFileProc EXCEPT !.pc = "read", !.file = f, !.content = content,
                                   !.readable = readable, !.llm_fails = llm_fails,
                                   !.embed_fails = embed_fails]
    /\ FileProcFrame

\* content = file_meta.file_path.read_text(...), then _extract_functions
fp_extract ==
    /\ fproc.pc = "read"
    /\ fproc' = IF fproc.readable
                  THEN [fproc EXCEPT !.pc = "extracted",
                                     !.functions = FuncsOf(fproc.content)]
                  ELSE [fproc EXCEPT !.pc = "raised", !.error = "boom"]
    /\ FileProcFrame

\* `if not extracted_functions: return [], 0`, else the inner semaphore is
\* built from config.indexing.max_concurrent_functions, which raises; the
\* analysis and the embedding of the functions are never reached
fp_semaphore ==
    /\ fproc.pc = "extracted"
    /\ fproc' = IF has_inner_semaphore(fproc.functions)
                  THEN [fproc EXCEPT !.pc = "returned"]
                  ELSE [fproc EXCEPT !.pc = "raised", !.error = NoSuchField]
    /\ FileProcFrame

NextFileProc ==
    \/ \E f \in Files, content \in 0..MaxVersion, readable \in BOOLEAN :
          \E llm_fails \in SUBSET FuncsOf(content), embed_fails \in SUBSET FuncsOf(content) :
             fp_process_file(f, content, readable, llm_fails, embed_fails)
    \/ fp_extract
    \/ fp_semaphore

SpecFileProc == Init /\ [][NextFileProc]_vars

\* ---------------------------------------------------------- chunk_code_file
ChunkFrame == SvcFrame /\ UNCHANGED <<retry, concOp, pipe, holds, full, fproc, srch, cstk, rcall>>

\* chunk_code_file(content, ...): one chunk for a small file, else the loop
\* of _line_based_chunk (_structure_aware_chunk runs the same loop: it
\* computes is_boundary and does not use it)
chunk_code_file(lines) ==
    /\ ck.pc \in {"idle", "done"}
    /\ ck' = IF estimate_tokens(lines) <= max_tokens
               THEN [NoChunking EXCEPT
                       !.pc = "done", !.lines = lines,
                       !.chunks = <<CodeChunk([i \in 1..Len(lines) |-> i], 0, 1,
                                              1, Len(lines))>>]
               ELSE [NoChunking EXCEPT !.pc = "loop", !.lines = lines, !.i = 1]
    /\ ChunkFrame

\* one turn of `for i, line in enumerate(lines, 1)`
chunk_line ==
    /\ ck.pc = "loop"
    /\ ck.i <= Len(ck.lines)
    /\ LET line_tokens == ck.lines[ck.i]
           current_tokens == SumTokens(ck.lines, ck.current_lines)
           full_chunk == current_tokens + line_tokens > max_tokens /\ ck.current_lines # <<>>
           overlap_lines == overlap_of(ck.lines, ck.current_lines, <<>>)
       IN ck' = IF full_chunk
                  THEN [ck EXCEPT
                          !.chunks = Append(@, CodeChunk(ck.current_lines, ck.chunk_index, 0,
                                                         ck.start_line, ck.i - 1)),
                          !.current_lines = Append(overlap_lines, ck.i),
                          !.chunk_index = @ + 1,
                          !.start_line = ck.i,
                          !.i = @ + 1]
                  ELSE [ck EXCEPT !.current_lines = Append(@, ck.i), !.i = @ + 1]
    /\ ChunkFrame

\* the final chunk, then total_chunks of every chunk
chunk_return ==
    /\ ck.pc = "loop"
    /\ ck.i > Len(ck.lines)
    /\ LET all == IF ck.current_lines # <<>>
                    THEN Append(ck.chunks, CodeChunk(ck.current_lines, ck.chunk_index, 0,
                                                     ck.start_line, Len(ck.lines)))
                    ELSE ck.chunks
       IN ck' = [ck EXCEPT !.pc = "done",
                           !.chunks = [k \in 1..Len(all) |->
                                          [all[k] EXCEPT !.total_chunks = Len(all)]]]
    /\ ChunkFrame

NextChunk ==
    \/ \E lines \in ChunkInputs : chunk_code_file(lines)
    \/ chunk_line
    \/ chunk_return

SpecChunk == Init /\ [][NextChunk]_vars

\* ------------------------------------------------ IndexManager.search_files
SearchFrame == SvcFrame /\ UNCHANGED <<retry, concOp, pipe, holds, full, fproc, ck, cstk, rcall>>

\* files_dict is kept as the sequence of its values in insertion order
position(files_dict, rel_path) ==
    IF \E p \in 1..Len(files_dict) : files_dict[p].relative_path = rel_path
      THEN CHOOSE p \in 1..Len(files_dict) : files_dict[p].relative_path = rel_path
      ELSE 0

\* the hit replaces the entry kept for its path when it scores lower
replaces_if_lower(result_score, kept_score) == result_score < kept_score

\* `result.score > files_dict[rel_path]["score"]`
replaces(result_score, kept_score) == result_score > kept_score

\* the body of `for result in results`
dedup(files_dict, hit) ==
    LET rel_path == hit.relative_path
        score == score_of(hit.distance)
        entry == [relative_path |-> rel_path, purpose |-> hit.purpose, score |-> score]
        p == position(files_dict, rel_path)
    IN IF rel_path # "" /\ rel_path # "__project_context__"
         THEN IF p = 0 THEN Append(files_dict, entry)
              ELSE IF replaces(score, files_dict[p].score)
                     THEN [files_dict EXCEPT ![p] = entry]
                     ELSE files_dict
         ELSE files_dict

RECURSIVE sorted_by_score(_)
\* sorted(files_dict.values(), key=lambda x: x["score"]): ascending, stable
sorted_by_score(entries) ==
    IF entries = <<>> THEN <<>>
    ELSE LET rest == sorted_by_score(SubSeq(entries, 1, Len(entries) - 1))
             e == entries[Len(entries)]
             n == Cardinality({q \in 1..Len(rest) : rest[q].score <= e.score})
         IN SubSeq(rest, 1, n) \o <<e>> \o SubSeq(rest, n + 1, Len(rest))

\* search_files(project_path, query, n_results) up to the hits; an exception
\* of the embedding or of the search returns status "failed". A call keeps
\* nothing of the calls before it, so one call is followed.
search_files ==
    /\ srch.pc = "idle"
    /\ \E n_results \in 1..MaxResults : \E hits \in HitLists(n_results) : \E threw \in BOOLEAN :
         srch' = IF threw
                   THEN [NoSearch EXCEPT !.pc = "done", !.n_results = n_results,
                                         !.status = "failed"]
                   ELSE [NoSearch EXCEPT !.pc = "dedup", !.n_results = n_results,
                                         !.hits = hits, !.k = 1]
    /\ SearchFrame

\* one turn of `for result in results`
search_dedup ==
    /\ srch.pc = "dedup"
    /\ srch.k <= Len(srch.hits)
    /\ srch' = [srch EXCEPT !.files_dict = dedup(@, srch.hits[srch.k]), !.k = @ + 1]
    /\ SearchFrame

\* files_list = sorted(...)[:n_results], and the return
search_return ==
    /\ srch.pc = "dedup"
    /\ srch.k > Len(srch.hits)
    /\ LET files_list == sorted_by_score(srch.files_dict)
       IN srch' = [srch EXCEPT
                     !.pc = "done", !.status = "success",
                     !.files = SubSeq(files_list, 1,
                                      IF Len(files_list) < srch.n_results
                                        THEN Len(files_list) ELSE srch.n_results)]
    /\ SearchFrame

NextSearch ==
    \/ search_files
    \/ search_dedup
    \/ search_return

SpecSearch == Init /\ [][NextSearch]_vars

\* ------------------------------------------- CallGraphStore.build_call_stack
CallStackFrame == SvcFrame /\ UNCHANGED <<retry, concOp, pipe, holds, full, fproc, ck, srch, rcall>>

\* one activation of build_call_stack(entry_point_id, max_depth, visited);
\* path is the chain of callers above it, calls the callees still to visit
Activation(entry_point_id, max_depth, visited, path) ==
    [id |-> entry_point_id, max_depth |-> max_depth, visited |-> visited,
     path |-> path, entered |-> FALSE, calls |-> {}]

\* mutant: every activation works on the one set of the first call
visited_shared(visited, seen) == seen

\* visited.copy(): the callee gets the set of its caller as it is at the call
visited_copy(visited, seen) == visited

\* flow_searcher._build_flow: build_call_stack(entry_point_id, max_depth)
\* with visited = None
build_call_stack ==
    /\ cstk.pc = "idle"
    /\ \E graph \in CallGraphs, entry_point_id \in EntryIds, max_depth \in 0..MaxDepth :
         cstk' = [NoCallStack EXCEPT
                    !.pc = "run", !.graph = graph, !.entry = entry_point_id,
                    !.max_depth = max_depth,
                    !.frames = <<Activation(entry_point_id, max_depth, {}, <<>>)>>]
    /\ CallStackFrame

\* the head of an activation: the two early returns, visited.add, get_function
\* and get_calls_from
cs_enter ==
    /\ cstk.pc = "run"
    /\ cstk.frames # <<>>
    /\ LET n == Len(cstk.frames)
           fr == cstk.frames[n]
       IN /\ ~fr.entered
          /\ IF fr.id \in fr.visited \/ fr.max_depth <= 0
               THEN cstk' = [cstk EXCEPT !.frames = SubSeq(@, 1, n - 1)]
             ELSE IF fr.id \notin FunctionIds
               THEN cstk' = [cstk EXCEPT !.frames = SubSeq(@, 1, n - 1),
                                         !.seen = @ \cup {fr.id}]
             ELSE cstk' = [cstk EXCEPT
                             !.frames[n] = [fr EXCEPT
                                              !.entered = TRUE,
                                              !.visited = @ \cup {fr.id},
                                              !.calls = get_calls_from(cstk.graph, fr.id)],
                             !.seen = @ \cup {fr.id},
                             !.tree = @ \cup {Append(fr.path, fr.id)}]
    /\ CallStackFrame

\* `for call in calls`: the recursive call for one callee
cs_call ==
    /\ cstk.pc = "run"
    /\ cstk.frames # <<>>
    /\ LET n == Len(cstk.frames)
           fr == cstk.frames[n]
       IN /\ fr.entered
          /\ \E callee \in fr.calls :
               cstk' = [cstk EXCEPT
                          !.frames = Append([@ EXCEPT ![n].calls = @ \ {callee}],
                                            Activation(callee, fr.max_depth - 1,
                                                       visited_copy(fr.visited, cstk.seen),
                                                       Append(fr.path, fr.id)))]
    /\ CallStackFrame

\* `return stack` of an activation whose calls are all done
cs_return ==
    /\ cstk.pc = "run"
    /\ IF cstk.frames = <<>>
         THEN cstk' = [cstk EXCEPT !.pc = "done"]
         ELSE LET n == Len(cstk.frames)
                  fr == cstk.frames[n]
              IN /\ fr.entered
                 /\ fr.calls = {}
                 /\ cstk' = [cstk EXCEPT !.frames = SubSeq(@, 1, n - 1)]
    /\ CallStackFrame

NextCallStack ==
    \/ build_call_stack
    \/ cs_enter
    \/ cs_call
    \/ cs_return

\* the recursion is synchronous code: a started call runs on
SpecCallStack ==
    Init /\ [][NextCallStack]_vars /\ WF_vars(cs_enter \/ cs_call \/ cs_return)

\* ------------------------------------------------ CallResolver.resolve_call
ResolveFrame ==
    SvcFrame /\ UNCHANGED <<retry, concOp, pipe, holds, full, fproc, ck, srch, cstk>>

ResolvedCall(callee_file, confidence, rule) ==
    [confidence |-> confidence, callee_file |-> callee_file, rule |-> rule]

\* _find_function_in_file(file_path, function_name) is not None
_find_function_in_file(functions_map, file) ==
    file # None /\ functions_map[file] > 0

\* Case 1b: the definitions of the name in the files other than the caller's
\* whose stem matches the module hint
filtered_matches(functions_map, module) ==
    { f \in SourceFiles : f # caller_file /\ stem_matches(module, f) /\ functions_map[f] > 0 }

RECURSIVE count_definitions(_, _)
\* len() of a list of (file, func_def) taken from the files in S
count_definitions(functions_map, S) ==
    IF S = {} THEN 0
    ELSE LET f == CHOOSE x \in S : TRUE
         IN functions_map[f] + count_definitions(functions_map, S \ {f})

\* Case 3: `if call.callee_name in import_stmt.imported_names or not
\* import_stmt.imported_names`, the module resolves, the file holds the name
import_hit(functions_map, import_stmt) ==
    /\ import_stmt.imported_names \in {"named", "wildcard"}
    /\ _find_function_in_file(functions_map, _resolve_module_import(import_stmt.module))

\* the first import statement of the list that hits, 0 when none does
first_import_hit(functions_map, imports) ==
    IF \E i \in 1..Len(imports) : import_hit(functions_map, imports[i])
      THEN CHOOSE i \in 1..Len(imports) :
             /\ import_hit(functions_map, imports[i])
             /\ \A j \in 1..(i - 1) : ~import_hit(functions_map, imports[j])
      ELSE 0

\* mutant: the same-file rule is tried whether or not a module was given
same_file_rule_always(module) == TRUE

\* `if not call.module`
same_file_rule_applies(module) == module = None

\* resolve_call(call, caller_file, language, imports, adapter)
resolve_call(module, functions_map, imports) ==
    LET target_file == _resolve_module_import(module)
        hinted == filtered_matches(functions_map, module)
        hit == first_import_hit(functions_map, imports)
    IN IF module # None /\ _find_function_in_file(functions_map, target_file)
         THEN ResolvedCall(target_file, "high", "1")
       ELSE IF module # None /\ count_definitions(functions_map, hinted) = 1
         THEN ResolvedCall(CHOOSE f \in hinted : TRUE, "medium", "1b")
       ELSE IF same_file_rule_applies(module)
               /\ _find_function_in_file(functions_map, caller_file)
         THEN ResolvedCall(caller_file, "high", "2")
       ELSE IF hit # 0
         THEN ResolvedCall(_resolve_module_import(imports[hit].module), "medium", "3")
       ELSE IF count_definitions(functions_map, SourceFiles) = 1
         THEN ResolvedCall(CHOOSE f \in SourceFiles : functions_map[f] > 0, "low", "4")
       ELSE Unresolved

\* resolve_calls: one call of the caller file is resolved
resolve_calls ==
    /\ rcall.pc = "idle"
    /\ \E module \in CallModules \cup {None}, functions_map \in FunctionsMaps,
          imports \in ImportLists :
         rcall' = [pc |-> "done", module |-> module, functions_map |-> functions_map,
                   imports |-> imports,
                   resolved |-> resolve_call(module, functions_map, imports)]
    /\ ResolveFrame

\* the resolver is used again for the next call
resolve_next ==
    /\ rcall.pc = "done"
    /\ rcall' = NoResolve
    /\ ResolveFrame

NextResolve == resolve_calls \/ resolve_next

SpecResolve == Init /\ [][NextResolve]_vars

\* ========================================================================
\* Claims
\* ========================================================================

\* C1 (stated as claimed; refuted): every completed checkpoint row that counts
\* chunks refers to a file whose documents are already in the files collection,
\* at every point of every execution.
C1_CompletedRowHasDocuments ==
    \A f \in Files :
        (fiRows[f].status = "completed" /\ fiRows[f].count > 0)
            => FileDocs(f, fiRows[f].hash) \subseteq filesColl

\* a non-force index_files entered right after a killed index_files, with no
\* file edited in between
C2_Rerun ==
    /\ call.name = "index_files"
    /\ ~call.force
    /\ call.prev = "killed"
    /\ call.modified = {}

PcRank ==
    CASE pc = "clear" -> 3
      [] pc = "context" -> 2
      [] pc = "process" -> 1
      [] OTHER -> 0

\* what is left to do in the call in progress
Rank == PcRank * (Cardinality(Files) + 1) + Cardinality(todo)

\* C2: in a rerun of a killed index_files with no file changes, no step sends
\* a file that had a completed row for its current hash at the start of the
\* rerun through analysis or embedding, and every step of the rerun strictly
\* decreases the work left, so the rerun terminates.
C2_RerunSkipsCompleted ==
    [][ (C2_Rerun' /\ op' = "index_files")
          => /\ (analysed' \ analysed) \cap skipAtStart' = {}
             /\ (op = "index_files" => Rank' < Rank) ]_vars

C2_Witness ==
    /\ C2_Rerun
    /\ op = "index_files"
    /\ pc = "return"
    /\ skipAtStart # {}
    /\ analysed # {}

\* a non-force index_files entered right after an index_files that returned
\* one of the statuses in prevs, with no file edited in between
C3_SecondRun(prevs) ==
    /\ call.name = "index_files"
    /\ ~call.force
    /\ call.prev \in prevs
    /\ call.modified = {}

\* C3 (stated as claimed; refuted): the second of two index_files runs in
\* succession with no file changes changes neither the set of document ids
\* in the files collection nor any fi_files row.
C3_SecondRunChangesNothing ==
    [][ C3_SecondRun({"success", "partial", "failed"})'
          => /\ DocIds(filesColl') = DocIds(filesColl)
             /\ fiRows' = fiRows ]_vars

\* C3 (amended): when the first run returned success, the second of two
\* index_files runs in succession with no file changes changes neither the
\* set of document ids in the files collection nor any fi_files row.
C3_SecondRunAfterSuccessChangesNothing ==
    [][ C3_SecondRun({"success"})'
          => /\ DocIds(filesColl') = DocIds(filesColl)
             /\ fiRows' = fiRows ]_vars

C3_Witness ==
    /\ C3_SecondRun({"success"})
    /\ op = "idle"
    /\ result = "success"
    /\ \A f \in Files : fiRows[f].status = "completed" /\ fiRows[f].count > 0
    /\ \A f \in Files : FileDocs(f, disk[f]) \subseteq filesColl

\* a non-force index_files entered right after an index_files that returned
\* success, exactly one file having been edited in between
C4_Rerun ==
    /\ call.name = "index_files"
    /\ ~call.force
    /\ call.prev = "success"
    /\ Cardinality(call.modified) = 1

\* C4 (stated as claimed; refuted): rerunning index_files after modifying
\* exactly one file f upserts only documents whose relative_path is f and
\* writes no fi_files row other than f's.
C4_RerunTouchesOnlyModified ==
    [][ C4_Rerun'
          => /\ (upserted' \ upserted) \subseteq call'.modified
             /\ (rowsWritten' \ rowsWritten) \subseteq call'.modified
             /\ \A g \in Files \ call'.modified : fiRows'[g] = fiRows[g] ]_vars

\* C4 (amended): rerunning index_files after modifying exactly one file f
\* upserts only documents whose relative_path is f or the project-context
\* document, and writes no fi_files row other than f's.
C4_RerunTouchesOnlyModifiedAndContext ==
    [][ C4_Rerun'
          => /\ (upserted' \ upserted) \subseteq (call'.modified \cup {CTX})
             /\ (rowsWritten' \ rowsWritten) \subseteq call'.modified
             /\ \A g \in Files \ call'.modified : fiRows'[g] = fiRows[g] ]_vars

C4_Witness ==
    /\ C4_Rerun
    /\ op = "index_files"
    /\ pc = "return"
    /\ \E f \in Files :
          /\ call.modified = {f}
          /\ rowsWritten = {f}
          /\ upserted = {f, CTX}
          /\ fiRows[f].status = "completed"
          /\ fiRows[f].hash = disk[f]

\* C5 (stated as claimed; refuted): a file whose processing raised during
\* index_files has a failed checkpoint row carrying the error message.
C5_RaisedFileHasFailedRow ==
    op = "index_files"
        => \A f \in raised : fiRows[f].status = "failed" /\ fiRows[f].error # None

\* C6 (stated as claimed; refuted): index_files returns partial when some
\* files were counted failed and at least one succeeded, and failed when
\* files were counted failed and none succeeded.
C6_StatusReflectsProgress ==
    [][ (op = "index_files" /\ pc = "return" /\ op' = "idle" /\ result' # "killed")
          => /\ (stats.failed_files > 0 /\ stats.ok_files > 0) => result' = "partial"
             /\ (stats.failed_files > 0 /\ stats.ok_files = 0) => result' = "failed" ]_vars

FuICalls == {"index_functions", "fn_update_files"}

\* C7 (stated as claimed; refuted): a Function Index operation entered with
\* no analysis record returns failed naming the missing analysis and changes
\* neither the vector store nor the checkpoint store.
C7_NoAnalysisNoWrite ==
    [][ (call'.name \in FuICalls /\ call'.paState = "absent")
          => /\ store' = store
             /\ op' = "idle"
             /\ result' = "failed"
             /\ error' = "no_analysis" ]_vars

\* C8: index_files entered when the analysis record is absent, or neither
\* completed nor at min_confidence >= 70, returns failed at once having
\* written nothing; so every write of index_files happens under a ready
\* analysis.
C8_IndexFilesGatedOnAnalysis ==
    [][ (call'.name = "index_files" /\ call'.paState # "ready")
          => /\ store' = store
             /\ upserted' = {}
             /\ rowsWritten' = {}
             /\ op' = "idle"
             /\ result' = "failed"
             /\ error' \in {"no_analysis", "analysis_incomplete"} ]_vars

C8_Witness ==
    /\ call.name = "index_files"
    /\ call.paState = "low"
    /\ call.force
    /\ op = "idle"
    /\ result = "failed"
    /\ \E f \in Files : fiRows[f].status = "completed"
    /\ filesColl # {}

\* C9: index_functions entered when the File Index has no completed row
\* returns failed at once having written nothing, with force or without.
C9_IndexFunctionsGatedOnFileIndex ==
    [][ (call'.name = "index_functions" /\ ~call'.fiDone)
          => /\ store' = store
             /\ upserted' = {}
             /\ rowsWritten' = {}
             /\ op' = "idle"
             /\ result' = "failed" ]_vars

C9_Witness ==
    /\ call.name = "index_functions"
    /\ call.force
    /\ call.paState = "ready"
    /\ ~call.fiDone
    /\ op = "idle"
    /\ result = "failed"
    /\ error = "no_file_index"
    /\ \E f \in Files : fuiRows[f].status = "completed"

\* C10 (stated as claimed; refuted): after a remove_files that returned
\* success, no document of the files collection and none of the functions
\* collection has a relative_path among the removed paths.
C10_RemovedPathsHaveNoDocuments ==
    (op = "idle" /\ call.name \in {"remove_files", "fn_remove_files"}
                 /\ result = "success")
        => \A d \in filesColl \cup fnColl : d.relative_path \notin call.paths

\* C11 (stated as claimed; refuted): after a remove_files that returned
\* success no completed fi_files row remains for a removed path, and after an
\* update_files that returned, a completed row of an updated path stands for
\* documents that are in the files collection.
C11_RowsFollowUpdateAndRemove ==
    /\ (op = "idle" /\ call.name = "remove_files" /\ result = "success")
          => \A f \in call.paths : fiRows[f].status # "completed"
    /\ (op = "idle" /\ call.name = "update_files" /\ result \in {"success", "partial"})
          => \A f \in call.paths :
                fiRows[f].status = "completed"
                    => FileDocs(f, fiRows[f].hash) \subseteq filesColl

\* C12 (stated as claimed; refuted): from one state of the project_analysis
\* row to the next, the stored confidence of none of the six fields decreases.
C12_ConfidenceNeverDecreases ==
    [][ (paRow.present /\ paRow'.present)
          => \A f \in Fields : paRow'.conf[f] >= paRow.conf[f] ]_vars

\* C13: once the row is stored with completed = true, a step either leaves
\* the row and the snapshots as they are, and then an analyze without force
\* returns at once without having called the LLM, or it is the entry of an
\* analyze with force, which deletes the row and every snapshot before any
\* LLM call.
C13_CompletedIsTerminal ==
    [][ (paRow.present /\ paRow.completed)
          => IF paRun'.force
               THEN /\ op = "idle"
                    /\ paRow' = NoAnalysisRow
                    /\ snaps' = NoSnaps
                    /\ ~paRun'.called
               ELSE /\ paRow' = paRow
                    /\ snaps' = snaps
                    /\ op' = "idle"
                    /\ result' = "returned"
                    /\ ~paRun'.called ]_vars

C13_Witness ==
    /\ op = "idle"
    /\ result = "returned"
    /\ paRun.wasCompleted
    /\ ~paRun.force
    /\ paRow.present
    /\ paRow.completed
    /\ paRow.iteration_count > 0
    /\ snaps[1] # "absent"

\* C14: when the loop ended without completed having been set inside it, the
\* row written by the final save has completed = true exactly when
\* min_confidence >= 70 or avg_confidence >= 80.
C14_FinalCompletedRule ==
    [][ (op = "analyze" /\ pc = "final" /\ result' = "done" /\ ~paRun.inLoop)
          => /\ paRow'.present
             /\ paRow'.completed <=> (min_confidence(cur) >= 70 \/ avg_confidence(cur) >= 80) ]_vars

C14_Witness ==
    /\ op = "idle"
    /\ result = "done"
    /\ paRow.present
    /\ paRow.completed
    /\ min_confidence(paRow) < 70
    /\ avg_confidence(paRow) >= 80

\* C15: an iteration makes at most RETRIES attempts; the step at which the
\* last attempt fails merges nothing and writes neither a snapshot nor the
\* row, and after it the run only does its final save (or is killed): no
\* snapshot, no change of the stored fields or iteration count, no further
\* iteration.
C15_FailedIterationLeavesNothing ==
    [][ /\ attempts' <= RETRIES
        /\ (paRun'.failed /\ ~paRun.failed)
              => /\ attempts' = RETRIES
                 /\ cur' = cur
                 /\ snaps' = snaps
                 /\ paRow' = paRow
                 /\ pc' = "final"
        /\ paRun.failed
              => /\ op' = "idle"
                 /\ snaps' = snaps
                 /\ paRow'.conf = paRow.conf
                 /\ paRow'.value = paRow.value
                 /\ paRow'.iteration_count = paRow.iteration_count ]_vars

C15_Witness ==
    /\ op = "analyze"
    /\ pc = "final"
    /\ paRun.failed
    /\ attempts = RETRIES
    /\ cur.iteration_count > 0

\* the iterations that have a row in analysis_iterations
Snapshots == { n \in 1..MAX_ITERATIONS : snaps[n] # "absent" }

\* C16 (stated as claimed; refuted): whenever no analyze is running, also
\* after interrupted and resumed runs, the snapshot log is exactly the
\* sequence 1..iteration_count of the stored record.
C16_SnapshotLogMatchesIterationCount ==
    op = "idle" => Snapshots = 1..paRow.iteration_count

\* C17 (stated as claimed; refuted): over a run and its non-force
\* resumptions at most MAX_ITERATIONS iterations are executed in total: the
\* recorded iterations and those left unrecorded together.
C17_AtMostMaxIterationsInTotal ==
    op = "idle" => paRow.iteration_count + wasted <= MAX_ITERATIONS

\* what is left to do in the run in progress
PARank ==
    IF op # "analyze" THEN 0
    ELSE CASE pc = "final" -> 1
           [] pc = "loop" -> (MAX_ITERATIONS - cur.iteration_count) * 10 + 9
           [] pc = "llm" -> (MAX_ITERATIONS - cur.iteration_count) * 10 + 8 - attempts
           [] pc = "save" -> (MAX_ITERATIONS - cur.iteration_count) * 10 + 10
           [] OTHER -> 0

\* C17 (amended): every step of a run of analyze strictly decreases the work
\* left, so the run terminates; a run executes at most MAX_ITERATIONS minus
\* the stored iteration_count iterations; the stored iteration_count never
\* exceeds MAX_ITERATIONS.
C17_EachRunBounded ==
    [][ /\ paRow'.iteration_count <= MAX_ITERATIONS
        /\ op' = "analyze" => paRun'.entryCount + paRun'.iterations <= MAX_ITERATIONS
        /\ op = "analyze" => PARank' < PARank ]_vars

C17_Witness ==
    /\ op = "idle"
    /\ result = "done"
    /\ paRow.present
    /\ paRow.iteration_count = MAX_ITERATIONS
    /\ Snapshots = 1..MAX_ITERATIONS

\* C18: over any minute the requests granted by acquire do not exceed RPM
\* and the tokens granted do not exceed TPM, whatever minute is observed and
\* however the callers arrive (a burst on a full bucket included).
C18_WindowWithinLimits ==
    /\ window.requests <= RPM
    /\ window.tokens <= TPM

\* C19: with demands of at most RPM requests and TPM tokens, every caller
\* that has entered acquire eventually leaves it with its demand granted.
C19_EveryAcquireReturns ==
    \A c \in Callers : (cpc[c] \in {"queued", "sleeping"}) ~> (cpc[c] = "granted")

\* a caller is granted after having slept on an empty bucket while another
\* caller is waiting for the lock behind it
C19_Witness ==
    \E c \in Callers, o \in Callers :
        /\ c # o
        /\ cpc[c] = "granted"
        /\ demand[c].waited
        /\ demand[c].tokens <= TPM
        /\ cpc[o] = "queued"

\* C20: every provider call, first attempt or retried attempt, is preceded
\* by an acquire of its own that was granted.
C20_EveryCallAcquiredFirst ==
    \A c \in Callers : permit[c] # "missing"

\* C21: func() is called again only after a rate-limit or timeout error, and
\* then after a sleep of base_delay * 2^k where k is the attempt that failed;
\* it is called at most max_retries times; any other error is raised at once
\* with no sleep after it, and after a success func() is not called again.
C21_RetryOnlyTransientWithBackoff ==
    [][ LET log == retry.log
            after == retry'.log
            called == Len(after) = Len(log) + 1 /\ after[Len(after)][1] = "call"
            slept == Len(after) = Len(log) + 1 /\ after[Len(after)][1] = "sleep"
            calls == Cardinality({i \in 1..Len(after) : after[i][1] = "call"})
        IN /\ called =>
                /\ calls <= max_retries
                /\ log # <<>> => /\ log[Len(log)][1] = "sleep"
                                 /\ classify(retry.outcome) = "transient"
                /\ classify(retry'.outcome) = "ok" => retry'.pc = "returned"
                /\ classify(retry'.outcome) = "other" => retry'.pc = "raised"
                /\ classify(retry'.outcome) = "transient" =>
                       retry'.pc = IF calls < max_retries THEN "sleep" ELSE "raised"
           /\ slept =>
                /\ retry.pc = "sleep"
                /\ classify(retry.outcome) = "transient"
                /\ after[Len(after)][2] = retry.base_delay * Pow2(calls - 1)
           /\ retry.pc \in {"returned", "raised"} => retry'.log = <<>> ]_vars

\* the third attempt is made after sleeps of base_delay and 2 * base_delay
C21_Witness ==
    /\ retry.pc = "returned"
    /\ retry.base_delay = 2
    /\ retry.log = <<<<"call", 0>>, <<"sleep", 2>>, <<"call", 1>>, <<"sleep", 4>>, <<"call", 2>>>>

\* C22: at most max_concurrent_files file pipelines are in flight at any
\* instant, and a pipeline that is in its LLM call holds a slot of the
\* semaphore.  (The bound on function analyses has no counterpart: the
\* capacity of the inner semaphore is read from a configuration field that
\* does not exist.)
C22_BoundedConcurrency ==
    /\ Cardinality(in_flight) <= max_concurrent_files
    /\ \A p \in Pipelines : pipe[p] = "llm" => p \in holds

\* C23: should_reindex is false exactly when the row exists, is completed and
\* stores the current hash (so it is true for an absent row, a failed row and
\* a different hash), and the FI and FuI lookups decide alike.
C23_ShouldReindexIffNotCompletedSameHash ==
    \A f \in Files, h \in 0..MaxVersion :
        \A rows \in {fiRows, fuiRows} :
            LET suppressed == rows[f].status = "completed" /\ rows[f].hash = h
            IN /\ should_reindex_file(rows, f, h) = ~suppressed
               /\ should_reindex_functions(rows, f, h) = ~suppressed

\* index_files has skipped a completed file with the current hash and queued
\* a completed file whose hash differs
C23_Witness ==
    /\ op = "index_files"
    /\ \E f \in skipAtStart, g \in todo :
          /\ fiRows[f].status = "completed"
          /\ fiRows[f].hash = disk[f]
          /\ fiRows[g].status = "completed"
          /\ fiRows[g].hash # disk[g]
          /\ ~should_reindex_file(fiRows, f, disk[f])
          /\ should_reindex_functions(fiRows, g, disk[g])

\* C24: the stages are started in the order analyze, index_files,
\* index_functions, each after the one before it returned; index_files is
\* started exactly when analyze returned a record that is completed or has
\* min_confidence >= 70; index_functions is never started after index_files
\* returned failed.
C24_StagesInOrderAndGated ==
    [][ LET before == full.started
            ran == full'.started
        IN /\ \E n \in 0..3 :
                 ran = SubSeq(<<"analyze", "index_files", "index_functions">>, 1, n)
           /\ Len(ran) > Len(before) =>
                 /\ Len(ran) = Len(before) + 1
                 /\ full'.pc = ran[Len(ran)]
                 /\ before # <<>> => full.pc = before[Len(before)]
           /\ (full.pc = "analyze" /\ full'.pc # "analyze" /\ full'.status # "failed") =>
                 (full'.pc = "index_files"
                    <=> (full'.analysis.completed \/ full'.analysis.min_confidence >= 70))
           /\ (full.pc = "index_files" /\ full'.files = "failed") =>
                 /\ full'.pc = "returned"
                 /\ ran = before ]_vars

\* an analysis completed by its average alone (min_confidence below 70) lets
\* the call go on, and index_functions is started after a partial index_files
C24_Witness ==
    /\ full.pc = "returned"
    /\ full.started = <<"analyze", "index_files", "index_functions">>
    /\ full.analysis.completed
    /\ full.analysis.min_confidence < 70
    /\ full.files = "partial"

\* C25: after an update_files request returned success, no named path keeps
\* a completed FuI checkpoint row for a content the file no longer has; after
\* a remove_files request returned success, no named path keeps a FuI
\* checkpoint row or a function document.
C25_RequestsReachFunctionIndex ==
    /\ (op = "idle" /\ call.name = "update_files" /\ result = "success")
          => \A f \in call.paths :
                fuiRows[f].status = "completed" => fuiRows[f].hash = disk[f]
    /\ (op = "idle" /\ call.name = "remove_files" /\ result = "success")
          => \A f \in call.paths :
                /\ fuiRows[f].status = "absent"
                /\ \A d \in fnColl : d.relative_path # f

\* C26: when _process_file of a readable file has ended, every extracted
\* function whose LLM analysis failed and whose embedding did not fail has
\* its document among the documents of the file.
C26_AnalysisFailureDropsNothing ==
    (fproc.pc \in {"returned", "raised"} /\ fproc.readable)
        => \A n \in FuncsOf(fproc.content) :
              (n \in fproc.llm_fails /\ n \notin fproc.embed_fails)
                  => _generate_function_id(fproc.file, n) \in DocIds(fproc.docs)

\* the lines two chunks have in common
SharedLines(c, d) ==
    {c.content[k] : k \in 1..Len(c.content)} \cap {d.content[k] : k \in 1..Len(d.content)}

\* the tokens of the lines numbered in the set S
TokensOf(lines, S) == SumTokens(lines, [k \in 1..Cardinality(S) |->
                        CHOOSE n \in S : Cardinality({m \in S : m < n}) = k - 1])

\* C27: the chunks returned for a file cover every line of the file in order
\* (each chunk is a run of consecutive lines, the first starts at line 1, the
\* last ends at the last line, each next chunk starts no later than the line
\* after the previous chunk's end and ends later), the lines two consecutive
\* chunks share hold at most overlap_tokens tokens, and the chunk indices are
\* 0..total-1 with total_chunks equal to the number of chunks.
C27_ChunksCoverWithBoundedOverlap ==
    ck.pc = "done" =>
        LET cs == ck.chunks
            n == Len(cs)
            first(k) == cs[k].content[1]
            last(k) == cs[k].content[Len(cs[k].content)]
        IN /\ n >= 1
           /\ \A k \in 1..n :
                /\ cs[k].chunk_index = k - 1
                /\ cs[k].total_chunks = n
                /\ \A j \in 1..(Len(cs[k].content) - 1) :
                       cs[k].content[j + 1] = cs[k].content[j] + 1
           /\ ck.lines # <<>> =>
                /\ \A k \in 1..n : cs[k].content # <<>>
                /\ first(1) = 1
                /\ last(n) = Len(ck.lines)
                /\ \A k \in 1..(n - 1) :
                     /\ first(k + 1) <= last(k) + 1
                     /\ first(k + 1) >= first(k)
                     /\ last(k + 1) > last(k)
                     /\ TokensOf(ck.lines, SharedLines(cs[k], cs[k + 1])) <= overlap_tokens

\* a file was split into three chunks, two of which share a line
C27_Witness ==
    /\ ck.pc = "done"
    /\ Len(ck.chunks) >= 3
    /\ \E k \in 1..(Len(ck.chunks) - 1) : SharedLines(ck.chunks[k], ck.chunks[k + 1]) # {}

\* C28: a file of at most max_tokens estimated tokens yields exactly one
\* chunk, and every chunk of a larger file holds at most
\* max_tokens + overlap_tokens estimated tokens.
C28_ChunkSizeBounded ==
    ck.pc = "done" =>
        IF estimate_tokens(ck.lines) <= max_tokens
          THEN Len(ck.chunks) = 1
          ELSE \A k \in 1..Len(ck.chunks) :
                  SumTokens(ck.lines, ck.chunks[k].content) <= max_tokens + overlap_tokens

\* C29: the start_line and end_line recorded in a chunk are the first and the
\* last line of its content, and two consecutive chunks sharing lines have
\* end_line of the first >= start_line of the second.
C29_LineRangeMatchesContent ==
    ck.pc = "done" =>
        LET cs == ck.chunks
        IN /\ \A k \in 1..Len(cs) :
                cs[k].content # <<>> =>
                    /\ cs[k].start_line = cs[k].content[1]
                    /\ cs[k].end_line = cs[k].content[Len(cs[k].content)]
           /\ \A k \in 1..(Len(cs) - 1) :
                SharedLines(cs[k], cs[k + 1]) # {} => cs[k].end_line >= cs[k + 1].start_line

\* C30: the deduplicated view returned by search_files has at most one entry
\* per relative path, and the entry of a path is a hit of that path (its score
\* and its fields) that no other hit of the path outscores.
C30_BestChunkPerPath ==
    (srch.pc = "done" /\ srch.status = "success") =>
        LET files == srch.files
            hits == srch.hits
        IN /\ \A i, j \in 1..Len(files) :
                i # j => files[i].relative_path # files[j].relative_path
           /\ \A i \in 1..Len(files) :
                /\ \E k \in 1..Len(hits) :
                     /\ hits[k].relative_path = files[i].relative_path
                     /\ score_of(hits[k].distance) = files[i].score
                     /\ hits[k].purpose = files[i].purpose
                /\ \A k \in 1..Len(hits) :
                     hits[k].relative_path = files[i].relative_path
                         => score_of(hits[k].distance) <= files[i].score

\* a path was hit twice, the better chunk after the worse one, and the view
\* holds the path
C30_Witness ==
    /\ srch.pc = "done"
    /\ srch.status = "success"
    /\ \E k, m \in 1..Len(srch.hits) :
         /\ k < m
         /\ srch.hits[k].relative_path = srch.hits[m].relative_path
         /\ score_of(srch.hits[k].distance) < score_of(srch.hits[m].distance)
         /\ \E i \in 1..Len(srch.files) :
              srch.files[i].relative_path = srch.hits[k].relative_path

\* the best score a path reaches among the hits of the search (0 when the
\* path was not hit)
BestScore(rel_path) ==
    LET S == {score_of(srch.hits[k].distance) :
                k \in {q \in 1..Len(srch.hits) : srch.hits[q].relative_path = rel_path}}
    IN IF S = {} THEN 0 ELSE CHOOSE s \in S : \A t \in S : t <= s

\* the paths of files that were hit
HitFiles ==
    {srch.hits[k].relative_path : k \in 1..Len(srch.hits)} \ {"", "__project_context__"}

\* C38: search_files returns the n_results highest-scoring distinct files
\* among the hits (all of them when fewer were hit), ordered by descending
\* score: no file left out outscores a returned one.
C38_TopFilesDescending ==
    (srch.pc = "done" /\ srch.status = "success") =>
        LET files == srch.files
            returned == {files[i].relative_path : i \in 1..Len(files)}
        IN /\ Len(files) = (IF Cardinality(HitFiles) < srch.n_results
                              THEN Cardinality(HitFiles) ELSE srch.n_results)
           /\ \A i \in 1..(Len(files) - 1) : files[i].score >= files[i + 1].score
           /\ \A p \in HitFiles \ returned :
                \A i \in 1..Len(files) : BestScore(p) <= files[i].score

\* C33: an acquire that asks for more than a bucket holds when full leaves
\* acquire in finite time, and a caller waiting inside acquire does not keep
\* the callers queued behind it from being granted for ever.
C33_OversizeAcquireReturns ==
    /\ \A c \in Callers :
         (cpc[c] \in {"queued", "sleeping"} /\ demand[c].tokens > TPM) ~> (cpc[c] \in {"granted", "idle"})
    /\ \A c \in Callers :
         (cpc[c] = "queued" /\ demand[c].tokens <= TPM) ~> (cpc[c] = "granted")

\* C40: the request bucket's level stays within 0..RPM and the token bucket's
\* level within 0..TPM, whatever the callers ask for and however their
\* acquires interleave.
C40_LevelsWithinCapacity ==
    /\ bucket.request_tokens >= 0
    /\ bucket.request_tokens <= RPM
    /\ bucket.token_tokens >= 0
    /\ bucket.token_tokens <= TPM

\* a caller that had to wait for the refill was granted the whole token
\* bucket, which is left empty
C40_Witness ==
    \E c \in Callers :
        /\ cpc[c] = "granted"
        /\ demand[c].waited
        /\ demand[c].tokens = TPM
        /\ bucket.token_tokens = 0

\* C34: when index_files has returned success, the files collection holds,
\* for every file that was processed without an exception and whose row is
\* completed at the file's current content, only documents of that content:
\* none with a chunk_index at or above the number of chunks the current
\* content gives.
C34_NoStaleChunks ==
    (op = "idle" /\ call.name = "index_files" /\ result = "success") =>
        \A f \in Files :
            (/\ fiRows[f].status = "completed"
             /\ fiRows[f].hash = disk[f]
             /\ fiRows[f].error = None) =>
                \A d \in filesColl :
                    d.relative_path = f =>
                        /\ d.id[3] < ChunkCount(disk[f])
                        /\ d.hash = disk[f]

\* the functions of file f that have a document in the functions collection
IndexedFunctions(f) == { d.id[3] : d \in { e \in fnColl : e.relative_path = f } }

\* C35: after update_files of the function index has returned for paths that
\* were not edited since (and none of which raised an exception with an empty
\* message), the functions collection holds for each of the paths exactly the
\* functions extracted from the path's current content.
C35_UpdatedPathsHoldCurrentFunctions ==
    (/\ op = "idle"
     /\ call.name = "fn_update_files"
     /\ result \in {"success", "partial"}
     /\ changed \cap call.paths = {}
     /\ \A f \in call.paths : fuiRows[f].error # "") =>
        \A f \in call.paths : IndexedFunctions(f) = FuncsOf(disk[f])

C37_FailedRunDoesNotComplete ==
    [][ (op = "analyze" /\ pc = "final" /\ paRun.failed /\ result' = "done")
          => (paRow'.completed => (paRow.present /\ paRow.completed)) ]_vars

\* C39: the step at which the processing of a file raises writes a row with
\* status failed for the file and counts the file in failed_files, whatever
\* the message of the exception (an empty one included).
C39_RaiseMarksFailedAndCounts ==
    [][ \A f \in raised' \ raised :
            /\ fiRows'[f].status = "failed"
            /\ stats'.failed_files = stats.failed_files + 1 ]_vars

\* the chains of calls from the entry point in which no function occurs twice
SimplePaths(graph, entry, depth) ==
    { p \in UNION { [1..n -> FunctionIds] : n \in 1..Cardinality(FunctionIds) } :
        /\ Len(p) <= depth
        /\ p[1] = entry
        /\ \A i, j \in 1..Len(p) : i # j => p[i] # p[j]
        /\ \A i \in 1..(Len(p) - 1) : <<p[i], p[i + 1]>> \in graph }

\* C31: build_call_stack terminates on every call graph; the tree it returns
\* holds exactly the chains of calls from the entry point that have at most
\* max_depth functions and no function twice, so a function reached through
\* two branches is expanded under both; the recursion is never deeper than
\* max_depth + 1 activations.
C31_CallStackTerminatesBoundedAcyclic ==
    /\ [](Len(cstk.frames) <= cstk.max_depth + 1)
    /\ [](cstk.pc = "done"
            => cstk.tree = SimplePaths(cstk.graph, cstk.entry, cstk.max_depth))
    /\ (cstk.pc = "run") ~> (cstk.pc = "done")

\* a graph with a cycle and a self call in which f3 is called by f1 and by
\* f2: f3 is expanded under both, and the depth bound cut a chain
C31_Witness ==
    /\ cstk.pc = "done"
    /\ cstk.max_depth = 2
    /\ {<<"f1", "f2">>, <<"f2", "f1">>, <<"f2", "f3">>, <<"f1", "f3">>, <<"f3", "f3">>}
          \subseteq cstk.graph
    /\ <<"f1", "f3">> \in cstk.tree

\* what the resolver was given and what it returned
ImportOfCallee(file) ==
    \E i \in 1..Len(rcall.imports) :
        /\ rcall.imports[i].imported_names \in {"named", "wildcard"}
        /\ _resolve_module_import(rcall.imports[i].module) = file
        /\ rcall.functions_map[file] > 0

HintResolves ==
    /\ rcall.module # None
    /\ _resolve_module_import(rcall.module) # None
    /\ rcall.functions_map[_resolve_module_import(rcall.module)] > 0

SameFileDefines == rcall.module = None /\ rcall.functions_map[caller_file] > 0

GlobalDefinitions == count_definitions(rcall.functions_map, SourceFiles)

\* the files, other than the caller's, that define the name and whose stem
\* and the module hint contain one another
HintNamedFiles ==
    { f \in SourceFiles \ {caller_file} :
        rcall.functions_map[f] > 0 /\ stem_matches(rcall.module, f) }

HintNamesOneDefinition ==
    /\ rcall.module # None
    /\ count_definitions(rcall.functions_map, HintNamedFiles) = 1

\* C32 (as stated): a resolved call is "high" only through the module hint
\* resolved to a file that holds the callee, or through the caller's own file
\* when no hint was given; "medium" only through an import of that name, or a
\* wildcard import, resolved to a file that holds it; "low" only when the
\* global index holds exactly one definition of the name; every other call is
\* unresolved (and a call one of the rules covers is resolved)
C32_FiveRules ==
    rcall.pc = "done" =>
        LET r == rcall.resolved
        IN /\ r.confidence = "high" =>
                \/ HintResolves /\ r.callee_file = _resolve_module_import(rcall.module)
                \/ SameFileDefines /\ r.callee_file = caller_file
           /\ r.confidence = "medium" => ImportOfCallee(r.callee_file)
           /\ r.confidence = "low" =>
                GlobalDefinitions = 1 /\ rcall.functions_map[r.callee_file] = 1
           /\ r.confidence = "none" =>
                /\ ~HintResolves
                /\ ~SameFileDefines
                /\ \A f \in SourceFiles : ~ImportOfCallee(f)
                /\ GlobalDefinitions # 1

\* C32 (amended): as above, with a sixth rule tried right after the module
\* hint failed to resolve: the call is "medium" also when exactly one
\* definition of the name lies in a file other than the caller's whose stem
\* and the module hint contain one another; the rules are tried in the order
\* hint, hint by file name, same file, imports, single global definition
C32_RulesWithHintByFileName ==
    rcall.pc = "done" =>
        LET r == rcall.resolved
        IN /\ r.confidence = "high" =>
                \/ HintResolves /\ r.callee_file = _resolve_module_import(rcall.module)
                \/ SameFileDefines /\ r.callee_file = caller_file
           /\ r.confidence = "medium" =>
                \/ /\ ~HintResolves /\ HintNamesOneDefinition
                   /\ r.callee_file \in HintNamedFiles
                \/ /\ ~HintResolves /\ ~HintNamesOneDefinition /\ ~SameFileDefines
                   /\ ImportOfCallee(r.callee_file)
           /\ r.confidence = "low" =>
                /\ ~HintResolves /\ ~HintNamesOneDefinition /\ ~SameFileDefines
                /\ \A f \in SourceFiles : ~ImportOfCallee(f)
                /\ GlobalDefinitions = 1 /\ rcall.functions_map[r.callee_file] = 1
           /\ r.confidence = "none" =>
                /\ ~HintResolves /\ ~HintNamesOneDefinition /\ ~SameFileDefines
                /\ \A f \in SourceFiles : ~ImportOfCallee(f)
                /\ GlobalDefinitions # 1

\* a call with a module hint that no import rule resolves, resolved by the
\* file name, although an import of the name and the caller's own definition
\* were at hand
C32_Witness ==
    /\ rcall.pc = "done"
    /\ rcall.module = "like_c"
    /\ rcall.functions_map = [f \in SourceFiles |-> 1]
    /\ Len(rcall.imports) = 1 /\ rcall.imports[1] = [module |-> "mod_b", imported_names |-> "named"]
    /\ rcall.resolved = ResolvedCall("c", "medium", "1b")

====
